---- MODULE Spec2Model ----
(***************************************************************************)
(* Model of the notation endpoint of the coaching simulator               *)
(* (src/src/app/api/notation/route.ts): the weighted D/A/G/O score         *)
(* (injectScoreGlobal and its helpers) and the POST handler that fans out  *)
(* four evaluator calls, joins them, injects the score, saves and answers. *)
(*                                                                         *)
(* Numbers are fixed-point with two decimals: the integer n stands for the *)
(* JavaScript number n / 100, so 8000 is a score of 80 and the weight 0.20 *)
(* is 20.  A product of two such numbers has four decimals (unit 1/10000). *)
(***************************************************************************)
EXTENDS Integers, Sequences, FiniteSets, TLC

\* ------------------------------------------------------------------------
\* JSON values
\* ------------------------------------------------------------------------

\* round2's factor (Math.round(n * 100) / 100): the fixed-point unit.
Hundred == 100

Undefined == [t |-> "undefined", v |-> 0]
\* a JSON value that is not a number (a string such as "80%", null, ...)
NotNumber == [t |-> "string", v |-> 0]
Num(n) == [t |-> "number", v |-> n]
\* the number NaN: typeof gives "number", Number.isNaN gives true
NaN == [t |-> "NaN", v |-> 0]

Max2(a, b) == IF a >= b THEN a ELSE b
Min2(a, b) == IF a <= b THEN a ELSE b

\* ------------------------------------------------------------------------
\* Constants of route.ts
\* ------------------------------------------------------------------------

NOTATION_TABS == <<"synthese", "methodo", "discours", "transcription">>

DagoCode == <<"D", "A", "G", "O">>

SCORE_WEIGHTS_NotOne ==
    [demarrer_passer_barrage |-> 20,
     accrocher               |-> 30,
     gerer_objections        |-> 25,
     obtenir_rendez_vous     |-> 20]
SCORE_WEIGHTS ==
    [demarrer_passer_barrage |-> 20,
     accrocher               |-> 30,
     gerer_objections        |-> 25,
     obtenir_rendez_vous     |-> 25]

\* ------------------------------------------------------------------------
\* Utility functions of the score
\* ------------------------------------------------------------------------

\* Math.round: nearest integer, a tie going towards +infinity.  x is given as
\* the fraction num / den with den > 0.
MathRound(num, den) == (2 * num + den) \div (2 * den)

\* clamp0_100(n): n is any value; the result is a number (fixed-point).  The
\* values with t = "number" are the numbers other than NaN.
clamp0_100_NoUpper(n) ==
    IF n.t # "number" THEN 0 ELSE Max2(0, n.v)
clamp0_100(n) ==
    IF n.t # "number" THEN 0 ELSE Max2(0, Min2(100 * Hundred, n.v))

\* round2(n) for n = n4 / 10000, a product of two fixed-point numbers: the
\* result is fixed-point again.
round2(n4) == MathRound(n4, Hundred)

\* roundToStep(n, step) for fixed-point n and step 1 or 5: the result is
\* fixed-point.
roundToStep_Down(n, step) ==
    (n \div (step * Hundred)) * step * Hundred
roundToStep(n, step) ==
    MathRound(n, step * Hundred) * step * Hundred

niveauPerformance_Exclusive(score) ==
    IF score < 40 * Hundred THEN "faible"
    ELSE IF score < 65 * Hundred THEN "moyen"
    ELSE IF score < 85 * Hundred THEN "bon"
    ELSE "excellent"
niveauPerformance(score) ==
    IF score <= 40 * Hundred THEN "faible"
    ELSE IF score <= 65 * Hundred THEN "moyen"
    ELSE IF score <= 85 * Hundred THEN "bon"
    ELSE "excellent"

\* ------------------------------------------------------------------------
\* Methodology steps (MethodoEtape) and the notation object (NotationPayload)
\* ------------------------------------------------------------------------

(* An element of methodo.etapes.  nul: the element is JSON null.  code: the    *)
(* value of e.code, "undefined" when the field is missing or null, "X" for a   *)
(* string that is none of D, A, G, O.  prefix: which of the four patterns      *)
(* /^\s*N\s*[—-]/ (N = 1..4) e.titre matches, 0 for none (they exclude one     *)
(* another: each asks for its own digit as the first non-blank character).     *)
Etape(code, prefix, score) ==
    [nul |-> FALSE, code |-> code, prefix |-> prefix, score |-> score,
     score_max |-> Undefined, poids |-> Undefined,
     contribution_score_global |-> Undefined]

NullEtape ==
    [nul |-> TRUE, code |-> "undefined", prefix |-> 0, score |-> Undefined,
     score_max |-> Undefined, poids |-> Undefined,
     contribution_score_global |-> Undefined]

\* The notation object: its own keys in insertion order, and each key's value.
EmptyNotation ==
    [keys |-> << >>,
     synthese |-> Undefined, methodo |-> Undefined, discours |-> Undefined,
     transcription |-> Undefined, score_global |-> Undefined]

HasKey(notation, k) == \E i \in 1..Len(notation.keys) : notation.keys[i] = k

\* notation[k] = v: a new key goes last, an existing key keeps its place.
SetKey(notation, k, v) ==
    [[notation EXCEPT ![k] = v] EXCEPT
        !.keys = IF HasKey(notation, k) THEN @ ELSE Append(@, k)]

\* Array.prototype.find as an index: the first i with hit[i], 0 when none.
RECURSIVE FindFrom(_, _)
FindFrom(hit, i) ==
    IF i > Len(hit) THEN 0 ELSE IF hit[i] THEN i ELSE FindFrom(hit, i + 1)

FindIndex(hit) == FindFrom(hit, 1)

\* find reads a field of every element up to the one it returns; reading a
\* field of null throws a TypeError.
FindThrows(etapes, found) ==
    \E i \in 1..Len(etapes) : etapes[i].nul /\ (found = 0 \/ i < found)

PrefixOf(code) ==
    IF code = "D" THEN 1 ELSE IF code = "A" THEN 2 ELSE IF code = "G" THEN 3 ELSE 4

ByCode(etapes, code) ==
    FindIndex([i \in 1..Len(etapes) |-> ~etapes[i].nul /\ etapes[i].code = code])

ByPrefix(etapes, code) ==
    FindIndex([i \in 1..Len(etapes) |->
                  ~etapes[i].nul /\ etapes[i].prefix = PrefixOf(code)])

\* (the title prefix is looked up before the code)
getScoreFromEtapes_PrefixFirst(etapes, code) ==
    LET byCode == ByCode(etapes, code)
        byPrefix == ByPrefix(etapes, code)
    IN  IF byPrefix # 0 THEN clamp0_100(etapes[byPrefix].score)
        ELSE IF byCode # 0 THEN clamp0_100(etapes[byCode].score)
        ELSE clamp0_100(Num(0))
getScoreFromEtapes(etapes, code) ==
    LET byCode == ByCode(etapes, code)
        byPrefix == ByPrefix(etapes, code)
    IN  IF byCode # 0 THEN clamp0_100(etapes[byCode].score)
        ELSE IF byPrefix # 0 THEN clamp0_100(etapes[byPrefix].score)
        ELSE clamp0_100(Num(0))

\* getScoreFromEtapes throws when one of its two finds reads a null element.
getScoreFromEtapesThrows(etapes, code) ==
    \/ FindThrows(etapes, ByCode(etapes, code))
    \/ /\ ByCode(etapes, code) = 0
       /\ FindThrows(etapes, ByPrefix(etapes, code))

\* The parts of the sentence buildInterpretation fills in: the text is a fixed
\* template around lacunesTxt, poidsManquantsPct, d and g.
\* (the percentage counts only the phases the sentence names, A and O)
buildInterpretation_NamedOnly(detail) ==
    LET zero(i) == detail[i].score_etape = 0 /\ detail[i].code \in {"A", "O"}
        RECURSIVE poidsManquants(_)
        poidsManquants(i) ==
            IF i = 0 THEN 0
            ELSE poidsManquants(i - 1) + (IF zero(i) THEN detail[i].poids ELSE 0)
        scoreOf(code) ==
            LET i == FindIndex([j \in 1..Len(detail) |-> detail[j].code = code])
            IN  IF i = 0 THEN 0 ELSE detail[i].score_etape
        lacunes ==
            (IF scoreOf("A") = 0 THEN <<"la phase d'accroche (0%)">> ELSE << >>)
            \o (IF scoreOf("O") = 0
                THEN <<"l'obtention du rendez-vous (0%)">> ELSE << >>)
    IN  [lacunesTxt |-> IF Len(lacunes) > 0 THEN lacunes
                        ELSE <<"certaines etapes cles">>,
         poidsManquantsPct |-> MathRound(poidsManquants(Len(detail)) * 100, Hundred),
         d |-> scoreOf("D"),
         g |-> scoreOf("G")]
buildInterpretation(detail) ==
    LET zero(i) == detail[i].score_etape = 0
        RECURSIVE poidsManquants(_)
        poidsManquants(i) ==
            IF i = 0 THEN 0
            ELSE poidsManquants(i - 1) + (IF zero(i) THEN detail[i].poids ELSE 0)
        scoreOf(code) ==
            LET i == FindIndex([j \in 1..Len(detail) |-> detail[j].code = code])
            IN  IF i = 0 THEN 0 ELSE detail[i].score_etape
        lacunes ==
            (IF scoreOf("A") = 0 THEN <<"la phase d'accroche (0%)">> ELSE << >>)
            \o (IF scoreOf("O") = 0
                THEN <<"l'obtention du rendez-vous (0%)">> ELSE << >>)
    IN  [lacunesTxt |-> IF Len(lacunes) > 0 THEN lacunes
                        ELSE <<"certaines etapes cles">>,
         poidsManquantsPct |-> MathRound(poidsManquants(Len(detail)) * 100, Hundred),
         d |-> scoreOf("D"),
         g |-> scoreOf("G")]

\* notation.methodo?.etapes ?? [] : the array's elements, << >> when methodo
\* or etapes is missing; a value that is not an array makes isEtapesArray false.
etapesOf(notation) ==
    IF notation.methodo.t = "obj" /\ notation.methodo.etapes.t = "array"
    THEN notation.methodo.etapes.items
    ELSE << >>

isEtapesArray(notation) ==
    \/ notation.methodo.t # "obj"
    \/ notation.methodo.etapes.t \in {"undefined", "array"}

\* The early return of injectScoreGlobal (line 103).
returnsUnchanged(notation) ==
    ~isEtapesArray(notation) \/ Len(etapesOf(notation)) = 0

weightOf(code) ==
    IF code = "D" THEN SCORE_WEIGHTS.demarrer_passer_barrage
    ELSE IF code = "A" THEN SCORE_WEIGHTS.accrocher
    ELSE IF code = "G" THEN SCORE_WEIGHTS.gerer_objections
    ELSE SCORE_WEIGHTS.obtenir_rendez_vous

detailLine(etapes, label, code, poids) ==
    LET score == getScoreFromEtapes(etapes, code)
    IN  [etape |-> label, code |-> code, score_etape |-> score,
         poids |-> poids, contribution |-> round2(score * poids)]

\* (the line of O comes before the line of G)
detail_calcul_ObjectionsLast(etapes) ==
    << detailLine(etapes, "Demarrer et passer le barrage", "D",
                  SCORE_WEIGHTS.demarrer_passer_barrage),
       detailLine(etapes, "Accrocher", "A", SCORE_WEIGHTS.accrocher),
       detailLine(etapes, "Obtenir le rendez-vous", "O",
                  SCORE_WEIGHTS.obtenir_rendez_vous),
       detailLine(etapes, "Gerer les objections", "G",
                  SCORE_WEIGHTS.gerer_objections) >>
detail_calcul(etapes) ==
    << detailLine(etapes, "Demarrer et passer le barrage", "D",
                  SCORE_WEIGHTS.demarrer_passer_barrage),
       detailLine(etapes, "Accrocher", "A", SCORE_WEIGHTS.accrocher),
       detailLine(etapes, "Gerer les objections", "G",
                  SCORE_WEIGHTS.gerer_objections),
       detailLine(etapes, "Obtenir le rendez-vous", "O",
                  SCORE_WEIGHTS.obtenir_rendez_vous) >>

RECURSIVE sumContributions(_, _)
sumContributions(detail, n) ==
    IF n = 0 THEN 0
    ELSE sumContributions(detail, n - 1) + detail[n].contribution

\* (renormalised: the sum divided by the weight of the steps that scored)
rawGlobal_Renormalised(detail) ==
    LET RECURSIVE scored(_)
        scored(n) ==
            IF n = 0 THEN 0
            ELSE scored(n - 1) + (IF detail[n].score_etape > 0 THEN detail[n].poids ELSE 0)
    IN  IF scored(Len(detail)) = 0 THEN 0
        ELSE (sumContributions(detail, Len(detail)) * Hundred) \div scored(Len(detail))
rawGlobal(detail) == sumContributions(detail, Len(detail))

\* e.code ?? (the code of the title's prefix), "undefined" when neither gives one.
inferred(e) ==
    IF e.code # "undefined" THEN e.code
    ELSE IF e.prefix = 1 THEN "D"
    ELSE IF e.prefix = 2 THEN "A"
    ELSE IF e.prefix = 3 THEN "G"
    ELSE IF e.prefix = 4 THEN "O"
    ELSE "undefined"

\* One turn of the loop over the steps (lines 121-142).
annotate(e) ==
    IF inferred(e) = "undefined" THEN e
    ELSE [e EXCEPT
            !.code = inferred(e),
            !.score = Num(clamp0_100(e.score)),
            !.score_max = Num(100 * Hundred),
            !.poids = Num(weightOf(inferred(e))),
            !.contribution_score_global =
                Num(round2(clamp0_100(e.score) * weightOf(inferred(e))))]

\* (the composite is the unrounded sum)
scoreGlobalOf_Unrounded(etapes, roundStep) ==
    LET detail == detail_calcul(etapes)
        global == rawGlobal(detail)
    IN  [t |-> "obj",
         valeur |-> global,
         unite |-> "score_sur_100",
         methode_calcul |-> "moyenne_ponderee_etapes_methodologiques",
         ponderations |-> SCORE_WEIGHTS,
         detail_calcul |-> detail,
         score_process |-> global,
         score_execution_discours |-> "null",
         interpretation |-> buildInterpretation(detail),
         niveau_performance |-> niveauPerformance(global),
         seuils |-> [faible |-> "0-40", moyen |-> "41-65", bon |-> "66-85",
                     excellent |-> "86-100"],
         regles_exclusion |-> <<"SyntheseGlobale", "AvisPersonaIA",
                                "AnalyseDiscours", "Transcription">>]
scoreGlobalOf(etapes, roundStep) ==
    LET detail == detail_calcul(etapes)
        global == roundToStep(rawGlobal(detail), roundStep)
    IN  [t |-> "obj",
         valeur |-> global,
         unite |-> "score_sur_100",
         methode_calcul |-> "moyenne_ponderee_etapes_methodologiques",
         ponderations |-> SCORE_WEIGHTS,
         detail_calcul |-> detail,
         score_process |-> global,
         score_execution_discours |-> "null",
         interpretation |-> buildInterpretation(detail),
         niveau_performance |-> niveauPerformance(global),
         seuils |-> [faible |-> "0-40", moyen |-> "41-65", bon |-> "66-85",
                     excellent |-> "86-100"],
         regles_exclusion |-> <<"SyntheseGlobale", "AvisPersonaIA",
                                "AnalyseDiscours", "Transcription">>]

\* injectScoreGlobal raises a TypeError: a find of getScoreFromEtapes or the
\* loop over the steps reads a field of a null element.
injectScoreGlobalThrows(notation) ==
    /\ ~returnsUnchanged(notation)
    /\ \/ \E c \in {"D", "A", "G", "O"} :
              getScoreFromEtapesThrows(etapesOf(notation), c)
       \/ \E i \in 1..Len(etapesOf(notation)) : etapesOf(notation)[i].nul

\* injectScoreGlobal(notation, roundStep) when it returns: the notation object
\* after the call (the steps are annotated in place, score_global is assigned).
\* (the steps the loop skips are dropped from the array)
injectScoreGlobal_DropsSkipped(notation, roundStep) ==
    IF returnsUnchanged(notation) THEN notation
    ELSE SetKey(
            [notation EXCEPT !.methodo.etapes.items =
                SelectSeq([i \in 1..Len(etapesOf(notation)) |->
                              annotate(etapesOf(notation)[i])],
                          LAMBDA e : inferred(e) # "undefined")],
            "score_global",
            scoreGlobalOf(etapesOf(notation), roundStep))
injectScoreGlobal_IntoSynthese(notation, roundStep) ==
    IF returnsUnchanged(notation) THEN notation
    ELSE SetKey(
            [notation EXCEPT !.methodo.etapes.items =
                [i \in 1..Len(etapesOf(notation)) |->
                    annotate(etapesOf(notation)[i])]],
            "synthese",
            [t |-> "obj", id |-> "synthese",
             score_global |-> scoreGlobalOf(etapesOf(notation), roundStep)])
injectScoreGlobal(notation, roundStep) ==
    IF returnsUnchanged(notation) THEN notation
    ELSE SetKey(
            [notation EXCEPT !.methodo.etapes.items =
                [i \in 1..Len(etapesOf(notation)) |->
                    annotate(etapesOf(notation)[i])]],
            "score_global",
            scoreGlobalOf(etapesOf(notation), roundStep))

\* The notation object as injectScoreGlobal leaves it when it throws: the
\* steps before the first null element are annotated if the four calls of
\* getScoreFromEtapes got through, and score_global is not assigned.
injectScoreGlobalAtThrow(notation) ==
    IF \E c \in {"D", "A", "G", "O"} :
           getScoreFromEtapesThrows(etapesOf(notation), c)
    THEN notation
    ELSE [notation EXCEPT !.methodo.etapes.items =
            [i \in 1..Len(etapesOf(notation)) |->
                IF \E j \in 1..i : etapesOf(notation)[j].nul
                THEN etapesOf(notation)[i]
                ELSE annotate(etapesOf(notation)[i])]]

\* ------------------------------------------------------------------------
\* State
\* ------------------------------------------------------------------------

VARIABLES
    \* the score computation taken alone
    notationIn,     \* the notation object handed to injectScoreGlobal
    notationOut,    \* the same object after the calls made so far
    outcome,        \* "none", "returned" or "thrown": how the last call ended
    injectCount,    \* the number of calls of injectScoreGlobal made
    \* one POST /api/notation request
    pc,             \* "start", "fanout", "saving" or "done"
    request,        \* what steps 1 to 4 of the handler read, and where they ended
    promptsMap,     \* the tabs that have a prompt in the prompts table
    replies,        \* per tab what the evaluator answered, NoReply before
    results,        \* per tab (in NOTATION_TABS order) its call, pending or settled
    arrival,        \* the tabs' indices in the order their calls settled
    notation,       \* the local notation object of the handler
    errors,         \* the local errors array of the handler
    response,       \* the response returned to the caller
    store,          \* sessions.notation_json of the session
    updates,        \* the number of update(...) calls issued on the sessions table
    updateError,    \* the error field of the update's result, "unset" before
    \* several POST /api/notation requests over the sessions table
    runs,           \* per request its position and its local variables
    notation_json,  \* per session the value of sessions.notation_json
    lastWrite,      \* per session the request whose update was applied last
    \* POST and GET /api/notation by scenario over the sessions table
    posts,          \* per POST request its position, its body and what it resolved
    got,            \* the response of the GET request, NotGot before
    \* one call of a utility function
    call,           \* the function called, its argument and what it returned
    \* one preparation of an iframe session over the sessions table
    prepareParams,  \* the parameters prepareIframeSession is called with
    DEFAULT_COACH_ID, \* process.env.DEFAULT_COACH_ID, "" when it is not set
    sessions,       \* the rows of the sessions table in the order of created_at
    prepared,       \* what prepareIframeSession returned, NotPrepared before
    \* the iframe client component
    clientStatus,   \* status: "loading", "ready", "connecting", "connected",
                    \* "error" or "ended"
    clientConfig,   \* config: "null" or "loaded"
    startSessionAt, \* where startSession is: "idle", "media", "token", "sdp", "over"
    connectionHandler, \* pc.onconnectionstatechange is set
    connectionState, \* pc.connectionState, "" while there is no connection
    saveRequests,   \* the numbers of messages sent to /api/save-session
    conversationRef,   \* conversationRef.current, the captured conversation
    processedEventIds, \* processedEventIds.current
    delivered       \* the realtime events delivered on the data channel so far

scoreVars == <<notationIn, notationOut, outcome, injectCount>>
postVars == <<pc, request, promptsMap, replies, results, arrival, notation, errors,
              response, store, updates, updateError>>
tripVars == <<posts, got>>
runsVars == <<runs, notation_json, lastWrite, tripVars>>
callVars == <<call>>
clientVars == <<clientStatus, clientConfig, startSessionAt, connectionHandler,
                connectionState, saveRequests, conversationRef, processedEventIds,
                delivered>>
iframeVars == <<prepareParams, DEFAULT_COACH_ID, sessions, prepared, clientVars>>
vars == <<notationIn, notationOut, outcome, injectCount,
          pc, request, promptsMap, replies, results, arrival, notation, errors,
          response, store, updates, updateError,
          runs, notation_json, lastWrite, posts, got, call,
          prepareParams, DEFAULT_COACH_ID, sessions, prepared,
          clientStatus, clientConfig, startSessionAt, connectionHandler,
          connectionState, saveRequests, conversationRef, processedEventIds,
          delivered>>

\* The variables of a specification that does not use them.
RunsIdle ==
    /\ runs = << >>
    /\ notation_json = << >>
    /\ lastWrite = << >>

TripIdle ==
    /\ posts = << >>
    /\ got = << >>

CallIdle == call = [fn |-> "none", arg |-> Undefined, ret |-> Undefined]

ClientIdle ==
    /\ clientStatus = ""
    /\ clientConfig = ""
    /\ startSessionAt = ""
    /\ connectionHandler = FALSE
    /\ connectionState = ""
    /\ saveRequests = << >>
    /\ conversationRef = << >>
    /\ processedEventIds = {}
    /\ delivered = << >>

IframeIdle ==
    /\ prepareParams = << >>
    /\ DEFAULT_COACH_ID = ""
    /\ sessions = << >>
    /\ prepared = << >>
    /\ ClientIdle

\* ------------------------------------------------------------------------
\* Bounds and input sets
\* ------------------------------------------------------------------------

\* the longest etapes array built from GenericEtapes
MaxEtapes == 2
\* the number of times injectScoreGlobal is applied to one notation object
MaxInject == 2

\* Step scores: 0, 12.49, 50, 60, 80, 100, two out of range, one not a number,
\* and NaN.
WideScores ==
    {Num(0), Num(1249), Num(5000), Num(6000), Num(8000), Num(10000),
     Num(-500), Num(15000), NotNumber, NaN}

\* Steps with or without a code and a title prefix that score 50, a step whose
\* score is no number, and null.
GenericEtapes ==
    {Etape(c, p, Num(5000)) : c \in {"undefined", "D", "X"}, p \in {0, 1, 4}}
    \cup {Etape("undefined", 1, NotNumber), NullEtape}

GenericLists == UNION {[1..n -> GenericEtapes] : n \in 0..MaxEtapes}

\* Four steps, one per code, in three layouts: explicit codes in the order
\* D, A, G, O; no code and the titles "1 - ...", ..., "4 - ..."; explicit codes
\* in the order O, G, A, D under titles without a prefix.
FourSteps(layout, sD, sA, sG, sO) ==
    IF layout = "codes"
    THEN <<Etape("D", 1, sD), Etape("A", 2, sA), Etape("G", 3, sG), Etape("O", 4, sO)>>
    ELSE IF layout = "titles"
    THEN <<Etape("undefined", 1, sD), Etape("undefined", 2, sA),
           Etape("undefined", 3, sG), Etape("undefined", 4, sO)>>
    ELSE <<Etape("O", 0, sO), Etape("G", 0, sG), Etape("A", 0, sA), Etape("D", 0, sD)>>

\* A smaller set of scores for the layouts other than "codes".
NarrowScores == {Num(0), Num(5000), Num(10000), NotNumber}

FourStepLists ==
    {FourSteps("codes", sD, sA, sG, sO) :
        sD \in WideScores, sA \in WideScores,
        sG \in WideScores, sO \in WideScores}
    \cup
    {FourSteps(l, sD, sA, sG, sO) :
        l \in {"titles", "reversed"}, sD \in NarrowScores, sA \in NarrowScores,
        sG \in NarrowScores, sO \in NarrowScores}

\* Steps for some of the four codes only, each scoring 50 or 100.
PartialLists ==
    UNION {
        {SelectSeq(FourSteps("codes", sc[1], sc[2], sc[3], sc[4]),
                   LAMBDA e : e.code \in present) :
            sc \in [1..4 -> {Num(5000), Num(10000)}]} :
        present \in (SUBSET {"D", "A", "G", "O"}) \ {{}, {"D", "A", "G", "O"}}}

\* A tab's payload as the evaluator returned it.
ObjPayload(tab) == [t |-> "obj", id |-> tab]
MethodoPayload(etapes) == [t |-> "obj", id |-> "methodo", etapes |-> etapes]
ArrayOf(items) == [t |-> "array", items |-> items]

\* methodo payloads: no etapes field, an etapes that is no array, an array.
MethodoShapes(lists) ==
    {MethodoPayload(Undefined), MethodoPayload(NotNumber)}
    \cup {MethodoPayload(ArrayOf(l)) : l \in lists}

\* The notation object with the given values, its keys in NOTATION_TABS order.
NotationOf(synthese, methodo, discours, transcription) ==
    [keys |-> SelectSeq(NOTATION_TABS,
                LAMBDA k : \/ k = "synthese" /\ synthese.t = "obj"
                           \/ k = "methodo" /\ methodo.t = "obj"
                           \/ k = "discours" /\ discours.t = "obj"
                           \/ k = "transcription" /\ transcription.t = "obj"),
     synthese |-> synthese, methodo |-> methodo, discours |-> discours,
     transcription |-> transcription, score_global |-> Undefined]

ScoreInputs ==
    {NotationOf(sy, m, ObjPayload("discours"), Undefined) :
        sy \in {Undefined, ObjPayload("synthese")},
        m \in {Undefined} \cup MethodoShapes(GenericLists)}
    \cup
    {NotationOf(ObjPayload("synthese"), MethodoPayload(ArrayOf(l)),
                ObjPayload("discours"), ObjPayload("transcription")) :
        l \in FourStepLists \cup PartialLists}

\* ------------------------------------------------------------------------
\* POST /api/notation: one request (Spec)
\* ------------------------------------------------------------------------

NullValue == [t |-> "null", v |-> 0]
\* what JSON.parse returns for the texts null, 0, false and "": a falsy value
FalsyJson == [t |-> "falsy", v |-> 0]

\* if (result): the value is truthy.
Truthy(value) == value.t = "obj"

\* A call of callOpenAI that has not resolved yet.
Pending == [st |-> "pending", tab |-> "", result |-> [t |-> "null", v |-> 0],
            error |-> ""]
\* The object a call of callOpenAI resolves to; error "" is no error field.
Settled(tab, result, error) ==
    [st |-> "settled", tab |-> tab, result |-> result, error |-> error]

\* callOpenAI(tab) when promptsMap has no prompt for the tab (lines 314-319).
callOpenAINoPrompt_Fetches(tab) == Pending
callOpenAINoPrompt_Silent(tab) == Settled(tab, NullValue, "")
callOpenAINoPrompt(tab) ==
    Settled(tab, NullValue, "Prompt non trouve pour " \o tab)

(* callOpenAI(tab) once the evaluator has answered with reply (lines 321-391): *)
(* "network": fetch rejects; "http": a non-2xx response whose body carries     *)
(* error.message (message, "" when it has none); "text": a 2xx response whose  *)
(* text, code fences stripped, is invalid JSON (valid = FALSE) or parses to     *)
(* json.                                                                        *)
callOpenAI_Rethrow(tab, reply) ==
    IF reply.kind = "text" /\ reply.valid
    THEN Settled(tab, reply.json, "")
    ELSE [st |-> "rejected", tab |-> tab, result |-> NullValue,
          error |-> "fetch failed"]
callOpenAI(tab, reply) ==
    IF reply.kind = "network"
    THEN Settled(tab, NullValue, reply.message)
    ELSE IF reply.kind = "http"
    THEN Settled(tab, NullValue,
                 IF reply.message # "" THEN reply.message ELSE "Erreur API OpenAI")
    ELSE IF ~reply.valid
    THEN Settled(tab, NullValue, "Format de reponse invalide")
    ELSE Settled(tab, reply.json, "")

Reply(kind, message, valid, json) ==
    [kind |-> kind, message |-> message, valid |-> valid, json |-> json]

\* The evaluator has not answered (yet, or it was never called).
NoReply == Reply("none", "", FALSE, NullValue)

\* The etapes arrays the evaluator returns for methodo in this specification:
\* none, one step without code or prefix, the four steps 80 / 0 / 60 / 0, and
\* a step followed by null.
PostLists ==
    {<< >>,
     <<Etape("undefined", 0, Num(5000))>>,
     FourSteps("codes", Num(8000), Num(0), Num(6000), Num(0)),
     <<Etape("D", 1, Num(8000)), NullEtape>>}

TabPayloads(tab) ==
    IF tab = "methodo"
    THEN {MethodoPayload(ArrayOf(l)) : l \in PostLists}
    ELSE {ObjPayload(tab)}

EvaluatorReplies(tab) ==
    {Reply("network", "fetch failed", FALSE, NullValue),
     Reply("http", "", FALSE, NullValue),
     Reply("text", "", FALSE, NullValue),
     Reply("text", "", TRUE, FalsyJson)}
    \cup {Reply("text", "", TRUE, p) : p \in TabPayloads(tab)}

TabIndexes == 1..Len(NOTATION_TABS)

AnySettled(res) == \E i \in TabIndexes : res[i].st # "pending"
\* Promise.all resolves once every promise has (no call of callOpenAI rejects).
AllSettled(res) == \A i \in TabIndexes : res[i].st # "pending"

\* The array Promise.all resolves to: the values in the order of the promises
\* it was given, whatever the order they settled in.
PromiseAll_SettleOrder(res, order) == [k \in 1..Len(order) |-> res[order[k]]]
PromiseAll(res, order) == [i \in TabIndexes |-> res[i]]

\* results.forEach(...) of lines 402-408, for the first n results: the
\* notation object and the errors array.
RECURSIVE forEachResult(_, _)
forEachResult(joined, n) ==
    IF n = 0 THEN [notation |-> EmptyNotation, errors |-> << >>]
    ELSE LET before == forEachResult(joined, n - 1)
             r == joined[n]
         IN  IF Truthy(r.result)
             THEN [before EXCEPT !.notation = SetKey(@, r.tab, r.result)]
             ELSE IF r.error # ""
             THEN [before EXCEPT !.errors = Append(@, r.tab \o ": " \o r.error)]
             ELSE before

\* The JSON body of a response; Undefined is a field the body does not have.
Response(status, error, tabs_processed, errs, nota) ==
    [status |-> status, error |-> error, tabs_processed |-> tabs_processed,
     errors |-> errs, notation |-> nota]

NoResponse == Response(0, "", Undefined, Undefined, Undefined)

ErrorResponse(status, error) ==
    Response(status, error, Undefined, Undefined, Undefined)

\* The response of lines 435-441.
SuccessResponse(nota, errs) ==
    Response(200, "", ArrayOf(nota.keys),
             IF Len(errs) > 0 THEN ArrayOf(errs) ELSE Undefined, nota)

\* if (Object.keys(notation).length > 0): the notation object is saved.
hasKeys_Always(nota) == TRUE
hasKeys(nota) == Len(nota.keys) > 0

\* The body of the request: valid is FALSE when req.json() rejects; an id the
\* body does not carry (or carries empty) is "".
Body(valid, session_id, scenario_id) ==
    [valid |-> valid, session_id |-> session_id, scenario_id |-> scenario_id]

Bodies ==
    {Body(FALSE, "", ""), Body(TRUE, "", ""), Body(TRUE, "s1", ""),
     Body(TRUE, "", "sc1")}

\* The rows of the messages table for a session, by their roles.
Transcripts == {<< >>, <<"user", "assistant">>}

(* What steps 1 to 4 find outside the request: configured, the two Supabase   *)
(* environment variables are set; latestSession, the id of the last completed *)
(* session of the scenario, "" when the lookup fails or finds none; messages   *)
(* and messagesError, the result of the select on messages; pdf, the download  *)
(* gave the file; prompts, the tabs whose prompt the select on prompts gave.   *)
Environments ==
    [configured : BOOLEAN, latestSession : {"", "s1"},
     messagesError : BOOLEAN, messages : Transcripts,
     pdf : BOOLEAN, prompts : SUBSET {NOTATION_TABS[i] : i \in 1..Len(NOTATION_TABS)}]

\* What the handler has read when steps 1 to 4 end at step.
Request(step, body, effectiveSessionId, messages) ==
    [step |-> step, session_id |-> body.session_id,
     scenario_id |-> body.scenario_id,
     effectiveSessionId |-> effectiveSessionId, messages |-> messages]

NoRequest == Request("none", Body(TRUE, "", ""), "", << >>)

\* if (messagesError || !messages || messages.length === 0) of line 245.
noMessages_ErrorOnly(env) == env.messagesError
noMessages(env) == env.messagesError \/ Len(env.messages) = 0

\* let effectiveSessionId of lines 195-215 (read once the lookup succeeded).
effectiveSessionIdOf(body, env) ==
    IF body.session_id = "" /\ body.scenario_id # ""
    THEN env.latestSession
    ELSE body.session_id

(* Steps 1 to 4 (lines 172-302) for a body and an environment: the step they  *)
(* end at, "ok" when the fan-out follows, what was read, and the response of   *)
(* an early return (or of the outer catch for a body that is no JSON).         *)
resolveRequest(body, env) ==
    LET sid == effectiveSessionIdOf(body, env)
        ends(step, id, msgs, resp) ==
            [request |-> Request(step, body, id, msgs), response |-> resp]
    IN  IF ~body.valid
        THEN ends("body", "", << >>,
                  ErrorResponse(500, "Erreur interne du serveur"))
        ELSE IF body.session_id = "" /\ body.scenario_id = ""
        THEN ends("ids", "", << >>,
                  ErrorResponse(400, "session_id ou scenario_id requis"))
        ELSE IF ~env.configured
        THEN ends("config", "", << >>,
                  ErrorResponse(500, "Configuration Supabase manquante"))
        ELSE IF sid = ""
        THEN ends("session", "", << >>,
                  ErrorResponse(404, "Aucune session completee trouvee pour ce scenario"))
        ELSE IF noMessages(env)
        THEN ends("messages", sid, << >>,
                  ErrorResponse(404, "Aucun message trouve pour cette session"))
        ELSE IF ~env.pdf
        THEN ends("pdf", sid, env.messages,
                  ErrorResponse(404, "PDF de notation non trouve dans Supabase"))
        ELSE IF env.prompts = {}
        THEN ends("prompts", sid, env.messages,
                  ErrorResponse(404, "Prompts de notation non trouves dans la base"))
        ELSE ends("ok", sid, env.messages, NoResponse)

\* What the session's notation_json holds when the request arrives: the
\* notation an earlier request saved.
PriorNotation ==
    NotationOf(ObjPayload("earlier synthese"), Undefined,
               ObjPayload("earlier discours"), Undefined)

TabSet == {NOTATION_TABS[i] : i \in TabIndexes}

ScoreIdle ==
    /\ notationIn = EmptyNotation
    /\ notationOut = EmptyNotation
    /\ outcome = "none"
    /\ injectCount = 0

Init ==
    /\ pc = "start"
    /\ request = NoRequest
    /\ promptsMap = {}
    /\ replies = [i \in TabIndexes |-> NoReply]
    /\ results = [i \in TabIndexes |-> Pending]
    /\ arrival = << >>
    /\ notation = EmptyNotation
    /\ errors = << >>
    /\ response = NoResponse
    /\ store = PriorNotation
    /\ updates = 0
    /\ updateError = "unset"
    /\ ScoreIdle
    /\ RunsIdle
    /\ TripIdle
    /\ CallIdle
    /\ IframeIdle

\* Steps 1 to 4 end the request with an error response.
ResolveFails ==
    /\ pc = "start"
    /\ \E body \in Bodies, env \in Environments :
          LET r == resolveRequest(body, env)
          IN  /\ r.request.step # "ok"
              /\ request' = r.request
              /\ response' = r.response
    /\ pc' = "done"
    /\ UNCHANGED <<promptsMap, replies, results, arrival, notation, errors, store,
                   updates, updateError, scoreVars, runsVars, callVars, iframeVars>>

\* Steps 1 to 4 succeed with the prompts of the tabs in pm, and the four calls
\* of callOpenAI start: a tab without prompt resolves at once, the others wait
\* for the evaluator.
ResolveOk ==
    /\ pc = "start"
    /\ \E body \in Bodies, env \in Environments :
          LET r == resolveRequest(body, env)
              pm == env.prompts
          IN  /\ r.request.step = "ok"
              /\ request' = r.request
              /\ promptsMap' = pm
              /\ results' = [i \in TabIndexes |->
                                IF NOTATION_TABS[i] \in pm THEN Pending
                                ELSE callOpenAINoPrompt(NOTATION_TABS[i])]
              /\ arrival' = SelectSeq(<<1, 2, 3, 4>>,
                                      LAMBDA i : NOTATION_TABS[i] \notin pm)
    /\ pc' = "fanout"
    /\ UNCHANGED <<replies, notation, errors, response, store, updates,
                   updateError, scoreVars, runsVars, callVars, iframeVars>>

\* The evaluator answers the call of tab i, and callOpenAI resolves.
EvaluatorSettles ==
    /\ pc = "fanout"
    /\ \E i \in TabIndexes :
          /\ results[i].st = "pending"
          /\ \E reply \in EvaluatorReplies(NOTATION_TABS[i]) :
                /\ replies' = [replies EXCEPT ![i] = reply]
                /\ results' = [results EXCEPT
                                  ![i] = callOpenAI(NOTATION_TABS[i], reply)]
          /\ arrival' = Append(arrival, i)
    /\ UNCHANGED <<pc, request, promptsMap, notation, errors, response, store,
                   updates, updateError, scoreVars, runsVars, callVars, iframeVars>>

\* (with an empty notation object the handler ends without a response)
Join_Silent ==
    /\ pc = "fanout"
    /\ AllSettled(results)
    /\ LET joined == PromiseAll(results, arrival)
           built == forEachResult(joined, Len(joined))
           injected == injectScoreGlobal(built.notation, 5)
       IN  /\ errors' = built.errors
           /\ IF injectScoreGlobalThrows(built.notation)
              THEN /\ notation' = injectScoreGlobalAtThrow(built.notation)
                   /\ response' = ErrorResponse(500, "Erreur interne du serveur")
                   /\ pc' = "done"
                   /\ updates' = updates
              ELSE /\ notation' = injected
                   /\ IF hasKeys(injected)
                      THEN /\ pc' = "saving"
                           /\ updates' = updates + 1
                           /\ response' = response
                      ELSE /\ pc' = "done"
                           /\ updates' = updates
                           /\ response' = response
    /\ UNCHANGED <<request, promptsMap, replies, results, arrival, store,
                   updateError, scoreVars, runsVars, callVars, iframeVars>>

\* Promise.all resolves; steps 6 and 7 up to the await of the update, or, with
\* an empty notation object, up to the response (lines 396-441).
Join ==
    /\ pc = "fanout"
    /\ AllSettled(results)
    /\ LET joined == PromiseAll(results, arrival)
           built == forEachResult(joined, Len(joined))
           injected == injectScoreGlobal(built.notation, 5)
       IN  /\ errors' = built.errors
           /\ IF injectScoreGlobalThrows(built.notation)
              THEN /\ notation' = injectScoreGlobalAtThrow(built.notation)
                   /\ response' = ErrorResponse(500, "Erreur interne du serveur")
                   /\ pc' = "done"
                   /\ updates' = updates
              ELSE /\ notation' = injected
                   /\ IF hasKeys(injected)
                      THEN /\ pc' = "saving"
                           /\ updates' = updates + 1
                           /\ response' = response
                      ELSE /\ pc' = "done"
                           /\ updates' = updates
                           /\ response' = SuccessResponse(injected, built.errors)
    /\ UNCHANGED <<request, promptsMap, replies, results, arrival, store,
                   updateError, scoreVars, runsVars, callVars, iframeVars>>

\* The update of sessions.notation_json returns without error (lines 419-441).
StoreWriteOk ==
    /\ pc = "saving"
    /\ store' = notation
    /\ updateError' = "null"
    /\ response' = SuccessResponse(notation, errors)
    /\ pc' = "done"
    /\ UNCHANGED <<request, promptsMap, replies, results, arrival, notation, errors,
                   updates, scoreVars, runsVars, callVars, iframeVars>>

\* The update returns an error (lines 424-429).
StoreWriteFails_ReturnsResult ==
    /\ pc = "saving"
    /\ updateError' = "error"
    /\ response' = Response(500, "Erreur sauvegarde en base", ArrayOf(notation.keys),
                            IF Len(errors) > 0 THEN ArrayOf(errors) ELSE Undefined,
                            notation)
    /\ pc' = "done"
    /\ UNCHANGED <<request, promptsMap, replies, results, arrival, notation, errors,
                   store, updates, scoreVars, runsVars, callVars, iframeVars>>
StoreWriteFails ==
    /\ pc = "saving"
    /\ updateError' = "error"
    /\ response' = ErrorResponse(500, "Erreur sauvegarde en base")
    /\ pc' = "done"
    /\ UNCHANGED <<request, promptsMap, replies, results, arrival, notation, errors,
                   store, updates, scoreVars, runsVars, callVars, iframeVars>>

Next ==
    \/ ResolveFails
    \/ ResolveOk
    \/ EvaluatorSettles
    \/ Join
    \/ StoreWriteOk
    \/ StoreWriteFails

Spec == Init /\ [][Next]_vars

\* The same request under the scheduling the runtime gives it: every pending
\* evaluator call settles, the continuation of Promise.all runs once the four
\* calls have settled, and the awaited update returns, with or without error.
\* The steps of Join, told by the program counter alone: with the four calls
\* settled, Join is the only action enabled, it is always enabled, and each
\* of its steps leaves "fanout".
JoinRuns ==
    /\ pc = "fanout"
    /\ AllSettled(results)
    /\ pc' \in {"saving", "done"}

SpecLive ==
    /\ Init
    /\ [][Next]_vars
    /\ WF_vars(EvaluatorSettles)
    /\ WF_pc(JoinRuns)
    /\ WF_vars(StoreWriteOk \/ StoreWriteFails)

\* ------------------------------------------------------------------------
\* The score computation taken alone (SpecScore)
\* ------------------------------------------------------------------------

PostIdle ==
    /\ pc = "done"
    /\ request = NoRequest
    /\ promptsMap = {}
    /\ replies = [i \in TabIndexes |-> NoReply]
    /\ results = [i \in TabIndexes |-> Pending]
    /\ arrival = << >>
    /\ notation = EmptyNotation
    /\ errors = << >>
    /\ response = NoResponse
    /\ store = Undefined
    /\ updates = 0
    /\ updateError = "unset"

InitScore ==
    /\ notationIn \in ScoreInputs
    /\ notationOut = notationIn
    /\ outcome = "none"
    /\ injectCount = 0
    /\ PostIdle
    /\ RunsIdle
    /\ TripIdle
    /\ CallIdle
    /\ IframeIdle

\* injectScoreGlobal(notation, 5) returns.
\* (the call keeps a count of the earlier calls and rounds to the unit, not to
\* 5, from the second call on)
InjectReturns_Remembers ==
    /\ injectCount < MaxInject
    /\ outcome # "thrown"
    /\ ~injectScoreGlobalThrows(notationOut)
    /\ notationOut' = injectScoreGlobal(notationOut, IF injectCount = 0 THEN 5 ELSE 1)
    /\ outcome' = "returned"
    /\ injectCount' = injectCount + 1
    /\ UNCHANGED <<notationIn, postVars, runsVars, callVars, iframeVars>>
InjectReturns ==
    /\ injectCount < MaxInject
    /\ outcome # "thrown"
    /\ ~injectScoreGlobalThrows(notationOut)
    /\ notationOut' = injectScoreGlobal(notationOut, 5)
    /\ outcome' = "returned"
    /\ injectCount' = injectCount + 1
    /\ UNCHANGED <<notationIn, postVars, runsVars, callVars, iframeVars>>

\* injectScoreGlobal(notation, 5) raises a TypeError.
InjectThrows ==
    /\ injectCount < MaxInject
    /\ outcome # "thrown"
    /\ injectScoreGlobalThrows(notationOut)
    /\ notationOut' = injectScoreGlobalAtThrow(notationOut)
    /\ outcome' = "thrown"
    /\ injectCount' = injectCount + 1
    /\ UNCHANGED <<notationIn, postVars, runsVars, callVars, iframeVars>>

NextScore == InjectReturns \/ InjectThrows

SpecScore == InitScore /\ [][NextScore]_vars

\* ------------------------------------------------------------------------
\* Several requests over the sessions table (SpecRuns)
\* ------------------------------------------------------------------------

\* the number of POST requests in flight together
MaxRuns == 2

RunIds == 1..MaxRuns

\* The rows of the sessions table.
SessionIds == {"s1", "s2"}

\* The bodies of the requests: a session by its id, or the scenario whose last
\* completed session is s1.
RunBodies == {Body(TRUE, "s1", ""), Body(TRUE, "s2", ""), Body(TRUE, "", "sc1")}

\* What the requests find: the four prompts, the PDF, and the messages of the
\* session or none.
RunEnvironments ==
    {[configured |-> TRUE, latestSession |-> "s1", messagesError |-> FALSE,
      messages |-> m, pdf |-> TRUE, prompts |-> TabSet] : m \in Transcripts}

\* What the evaluator returns to request r for a tab: the evaluator is not
\* deterministic, and no two requests get the same payload.
RunPayload(tab, r) ==
    IF tab = "methodo"
    THEN MethodoPayload(ArrayOf(FourSteps("codes", Num(r * 2000), Num(r * 2000),
                                          Num(r * 2000), Num(r * 2000))))
    ELSE ObjPayload(tab \o " of request " \o ToString(r))

\* The four replies a request gets, by the tabs whose call gives a payload
\* (the call of the other tabs fails at the network).
RunReplies(r) ==
    {[i \in TabIndexes |->
         IF NOTATION_TABS[i] \in ok
         THEN Reply("text", "", TRUE, RunPayload(NOTATION_TABS[i], r))
         ELSE Reply("network", "fetch failed", FALSE, NullValue)] :
        ok \in {TabSet, {"methodo", "transcription"}, {"discours"}, {}}}

\* The local variables of a request.
Run(at, effectiveSessionId, nota, errs, resp, updErr) ==
    [pc |-> at, effectiveSessionId |-> effectiveSessionId, notation |-> nota,
     errors |-> errs, response |-> resp, updateError |-> updErr]

\* supabase.from('sessions').update({ notation_json: value }).eq('id', id): one
\* UPDATE statement, applied by the database as a whole.
updateNotationJson_AllRows(table, id, value) == [s \in DOMAIN table |-> value]
updateNotationJson_Merge(table, id, value) ==
    [table EXCEPT ![id] =
        [keys |-> value.keys \o SelectSeq(table[id].keys,
                                          LAMBDA k : ~HasKey(value, k)),
         synthese |-> IF HasKey(value, "synthese") THEN value.synthese
                      ELSE table[id].synthese,
         methodo |-> IF HasKey(value, "methodo") THEN value.methodo
                     ELSE table[id].methodo,
         discours |-> IF HasKey(value, "discours") THEN value.discours
                      ELSE table[id].discours,
         transcription |-> IF HasKey(value, "transcription") THEN value.transcription
                           ELSE table[id].transcription,
         score_global |-> IF HasKey(value, "score_global") THEN value.score_global
                          ELSE table[id].score_global]]
updateNotationJson(table, id, value) == [table EXCEPT ![id] = value]

InitRuns ==
    /\ runs = [r \in RunIds |->
                  Run("start", "", EmptyNotation, << >>, NoResponse, "unset")]
    /\ notation_json = [s \in SessionIds |-> PriorNotation]
    /\ lastWrite = [s \in SessionIds |-> 0]
    /\ TripIdle
    /\ ScoreIdle
    /\ PostIdle
    /\ CallIdle
    /\ IframeIdle

\* Steps 1 to 4 of request r: an early return, or the fan-out starts.
RunResolves(r) ==
    /\ runs[r].pc = "start"
    /\ \E body \in RunBodies, env \in RunEnvironments :
          LET res == resolveRequest(body, env)
          IN  runs' = [runs EXCEPT ![r] =
                  IF res.request.step = "ok"
                  THEN Run("fanout", res.request.effectiveSessionId, EmptyNotation,
                           << >>, NoResponse, "unset")
                  ELSE Run("done", res.request.effectiveSessionId, EmptyNotation,
                           << >>, res.response, "unset")]
    /\ UNCHANGED <<notation_json, lastWrite, tripVars, scoreVars, postVars, callVars, iframeVars>>

\* The four calls of request r have resolved: steps 5 to 7 up to the await of
\* the update, or up to the response when nothing is to be saved.
RunJoins(r) ==
    /\ runs[r].pc = "fanout"
    /\ \E answers \in RunReplies(r) :
          LET settled == [i \in TabIndexes |-> callOpenAI(NOTATION_TABS[i], answers[i])]
              joined == PromiseAll(settled, <<1, 2, 3, 4>>)
              built == forEachResult(joined, Len(joined))
              injected == injectScoreGlobal(built.notation, 5)
          IN  runs' = [runs EXCEPT ![r] =
                  IF injectScoreGlobalThrows(built.notation)
                  THEN Run("done", runs[r].effectiveSessionId,
                           injectScoreGlobalAtThrow(built.notation), built.errors,
                           ErrorResponse(500, "Erreur interne du serveur"), "unset")
                  ELSE IF hasKeys(injected)
                  THEN Run("saving", runs[r].effectiveSessionId, injected,
                           built.errors, NoResponse, "unset")
                  ELSE Run("done", runs[r].effectiveSessionId, injected, built.errors,
                           SuccessResponse(injected, built.errors), "unset")]
    /\ UNCHANGED <<notation_json, lastWrite, tripVars, scoreVars, postVars, callVars, iframeVars>>

\* The update of request r is applied and returns without error.
RunWriteOk(r) ==
    /\ runs[r].pc = "saving"
    /\ notation_json' = updateNotationJson(notation_json, runs[r].effectiveSessionId,
                                           runs[r].notation)
    /\ lastWrite' = [lastWrite EXCEPT ![runs[r].effectiveSessionId] = r]
    /\ runs' = [runs EXCEPT ![r] =
                   Run("done", runs[r].effectiveSessionId, runs[r].notation,
                       runs[r].errors,
                       SuccessResponse(runs[r].notation, runs[r].errors), "null")]
    /\ UNCHANGED <<tripVars, scoreVars, postVars, callVars, iframeVars>>

\* The update of request r returns an error.
RunWriteFails(r) ==
    /\ runs[r].pc = "saving"
    /\ runs' = [runs EXCEPT ![r] =
                   Run("done", runs[r].effectiveSessionId, runs[r].notation,
                       runs[r].errors,
                       ErrorResponse(500, "Erreur sauvegarde en base"), "error")]
    /\ UNCHANGED <<notation_json, lastWrite, tripVars, scoreVars, postVars, callVars, iframeVars>>

NextRuns ==
    \E r \in RunIds :
        \/ RunResolves(r)
        \/ RunJoins(r)
        \/ RunWriteOk(r)
        \/ RunWriteFails(r)

SpecRuns == InitRuns /\ [][NextRuns]_vars

\* ------------------------------------------------------------------------
\* One call of a utility function (SpecCall)
\* ------------------------------------------------------------------------

\* The scores niveauPerformance is called with: 0, 0.01, ..., 100.
ScoreArgs == 0..(100 * Hundred)

\* The values clamp0_100 is called with: numbers from -5 to 105, NaN and a
\* value that is no number.
ClampArgs == {Num(n) : n \in (-5 * Hundred)..(105 * Hundred)} \cup {NaN, NotNumber}

Called(fn, arg, ret) == [fn |-> fn, arg |-> arg, ret |-> ret]

InitCall ==
    /\ CallIdle
    /\ ScoreIdle
    /\ PostIdle
    /\ RunsIdle
    /\ TripIdle
    /\ IframeIdle

CallNiveauPerformance ==
    /\ call.fn = "none"
    /\ \E score \in ScoreArgs :
          call' = Called("niveauPerformance", Num(score),
                         [t |-> "string", v |-> niveauPerformance(score)])
    /\ UNCHANGED <<scoreVars, postVars, runsVars, iframeVars>>

CallClamp0_100 ==
    /\ call.fn = "none"
    /\ \E n \in ClampArgs :
          call' = Called("clamp0_100", n, Num(clamp0_100(n)))
    /\ UNCHANGED <<scoreVars, postVars, runsVars, iframeVars>>

NextCall == CallNiveauPerformance \/ CallClamp0_100

SpecCall == InitCall /\ [][NextCall]_vars

\* ------------------------------------------------------------------------
\* Preparing an iframe session over the sessions table (SpecPrepare)
\* ------------------------------------------------------------------------

\* the most sessions createIframeSession inserts
MaxSessions == 2

\* The coaches table: two coaches.  The scenarios table: two scenarios, each
\* with its persona.
Coach(id, name, voice_id) == [id |-> id, name |-> name, voice_id |-> voice_id]
Coaches == {Coach("c1", "Lia", "coral"), Coach("c2", "Max", "ash")}
NoCoach == Coach("", "", "")
Persona(name, voice_id) == [name |-> name, voice_id |-> voice_id]
Scenario(id, personas) == [id |-> id, personas |-> personas]
Scenarios ==
    {Scenario("sc1", Persona("Claire", "sage")),
     Scenario("sc2", Persona("Paul", "verse"))}
NoScenario == Scenario("", Persona("", ""))

\* A row of sessions.  Its id is its position in the table: rows are inserted
\* with created_at = now, so the order of the ids is the order of created_at.
\* duration_seconds is a number of seconds; notation_json is "null" or "obj".
Session(scenario_id, status, duration_seconds, json) ==
    [scenario_id |-> scenario_id, status |-> status,
     duration_seconds |-> duration_seconds, notation_json |-> json]

\* The duration the client reports when a call ends, in seconds.
Durations == {90}

\* PrepareParams as the page passes them: a missing string is "", a missing
\* refSessionId is 0 (both are falsy in the tests of the function).  model and
\* step only reach the text of the instructions and are left out.
PrepareParams(scenarioId, mode, refSessionId, coachId, coachMode, variant) ==
    [scenarioId |-> scenarioId, mode |-> mode, refSessionId |-> refSessionId,
     coachId |-> coachId, coachMode |-> coachMode, variant |-> variant]

\* IframeSessionConfig.  systemInstructions is the text's ingredients: the
\* base prompt, and the session whose messages make the transcript (0: none).
IframeSessionConfig(scenarioId, base, transcriptOf, owner, mode, coachMode) ==
    [scenarioId |-> scenarioId,
     systemInstructions |-> [base |-> base, transcriptOf |-> transcriptOf],
     voiceId |-> owner.voice_id,
     mode |-> mode,
     coachMode |-> coachMode,
     personaName |-> owner.name]
NoConfig == IframeSessionConfig("", "", 0, NoCoach, "", "")

\* The value the function resolves to; thrown: it came from the catch clause.
Prepared(success, error, data, thrown) ==
    [called |-> TRUE, success |-> success, error |-> error, data |-> data,
     thrown |-> thrown]
NotPrepared ==
    [called |-> FALSE, success |-> FALSE, error |-> "", data |-> NoConfig,
     thrown |-> FALSE]
Failure(error) == Prepared(FALSE, error, NoConfig, FALSE)
Success(data) == Prepared(TRUE, "", data, FALSE)

\* from("coaches").select("*").eq("id", id).single(): the row, NoCoach when
\* the query returns an error (no such row, or the query failed).
coachOf_DefaultOnly(coachId, defaultCoachId, failing) ==
    LET effectiveCoachId == defaultCoachId
        rows == {c \in Coaches : c.id = effectiveCoachId}
    IN  IF effectiveCoachId = "" \/ failing = "coaches" \/ rows = {} THEN NoCoach
        ELSE CHOOSE c \in rows : TRUE
coachOf(coachId, defaultCoachId, failing) ==
    LET effectiveCoachId == IF coachId # "" THEN coachId ELSE defaultCoachId
        rows == {c \in Coaches : c.id = effectiveCoachId}
    IN  IF effectiveCoachId = "" \/ failing = "coaches" \/ rows = {} THEN NoCoach
        ELSE CHOOSE c \in rows : TRUE

\* from("scenarios")...eq("id", id).single(): the row, NoScenario on an error.
scenarioOf(id, failing) ==
    LET rows == {sc \in Scenarios : sc.id = id}
    IN  IF failing = "scenarios" \/ rows = {} THEN NoScenario
        ELSE CHOOSE sc \in rows : TRUE

\* from("sessions")...eq("status", "completed").order("created_at",
\* {ascending: false}).limit(1).single(), with the filters on scenario_id and
\* on notation_json of the branch: the id of the row, 0 on an error (no row, or
\* the query failed).
latestSession_Oldest(table, scenarioId, withNotation, failing) ==
    LET rows == {i \in 1..Len(table) :
                    /\ table[i].status = "completed"
                    /\ scenarioId # "" => table[i].scenario_id = scenarioId
                    /\ withNotation => table[i].notation_json # "null"}
    IN  IF failing = "sessions" \/ rows = {} THEN 0
        ELSE CHOOSE i \in rows : \A j \in rows : i <= j
latestSession(table, scenarioId, withNotation, failing) ==
    LET rows == {i \in 1..Len(table) :
                    /\ table[i].status = "completed"
                    /\ scenarioId # "" => table[i].scenario_id = scenarioId
                    /\ withNotation => table[i].notation_json # "null"}
    IN  IF failing = "sessions" \/ rows = {} THEN 0
        ELSE CHOOSE i \in rows : \A j \in rows : j <= i

\* The three coach sub-modes that need a scenario (lines 104-369).
coachTraining(params, coach, table, failing) ==
    LET scenario == scenarioOf(params.scenarioId, failing)
        latest == latestSession(table, params.scenarioId,
                                params.coachMode = "notation", failing)
        effectiveSessionId ==
            IF params.coachMode = "after_training" /\ params.refSessionId # 0
            THEN params.refSessionId ELSE latest
    IN  IF params.scenarioId = ""
        THEN Failure("scenario_id is required for " \o params.coachMode \o " mode")
        ELSE IF scenario = NoScenario THEN Failure("Scenario not found")
        ELSE IF params.coachMode = "before_training"
        THEN Success(IframeSessionConfig(scenario.id, "coach.before_training", 0,
                                         coach, "coach", "before_training"))
        ELSE IF effectiveSessionId = 0
        THEN Failure(IF params.coachMode = "after_training"
                     THEN "No completed session found for this scenario"
                     ELSE "No completed session with notation found for this scenario")
        ELSE Success(IframeSessionConfig(
                        scenario.id,
                        IF params.coachMode = "after_training"
                        THEN "coach.after_training" ELSE "coach.notation.synthese",
                        effectiveSessionId, coach, "coach", params.coachMode))

\* The default coach mode (lines 371-450).
coachDefault(params, coach, table, failing) ==
    LET latest == latestSession(table, "", FALSE, failing)
        effectiveSessionId ==
            IF params.refSessionId # 0 THEN params.refSessionId ELSE latest
        found == /\ failing # "sessions"
                 /\ effectiveSessionId \in 1..Len(table)
    IN  IF effectiveSessionId = 0 THEN Failure("No completed session found")
        ELSE IF ~found THEN Failure("Session not found")
        ELSE Success(IframeSessionConfig(
                        table[effectiveSessionId].scenario_id,
                        "coach.system_instructions", effectiveSessionId,
                        coach, "coach", "default"))

\* mode = "coach" (lines 76-451).
coachBranch(params, defaultCoachId, table, failing) ==
    LET coach == coachOf(params.coachId, defaultCoachId, failing)
    IN  IF coach = NoCoach THEN Failure("No coach available")
        ELSE IF params.coachMode \in {"before_training", "after_training", "notation"}
        THEN coachTraining(params, coach, table, failing)
        ELSE coachDefault(params, coach, table, failing)

\* variant = "coach" with a scenario (lines 458-538): the persona gives its
\* opinion on the latest completed session of the scenario, if there is one.
personaVariant(params, table, failing) ==
    LET scenario == scenarioOf(params.scenarioId, failing)
    IN  IF scenario = NoScenario THEN Failure("Scenario not found")
        ELSE Success(IframeSessionConfig(
                        scenario.id, "persona.feedback",
                        latestSession(table, params.scenarioId, FALSE, failing),
                        scenario.personas, "standard", "persona_variant"))

\* The standard mode (lines 543-577).
standardMode(params, failing) ==
    LET scenario == scenarioOf(params.scenarioId, failing)
    IN  IF params.scenarioId = ""
        THEN Failure("scenario_id is required for standard mode")
        ELSE IF scenario = NoScenario THEN Failure("Scenario not found")
        ELSE Success(IframeSessionConfig(
                        scenario.id, "persona.system_instructions", 0,
                        scenario.personas, "standard", "undefined"))

\* prepareIframeSession(params).  failing names what fails during the call:
\* "none", "createClient" (it throws, the catch clause answers), or the table
\* whose queries return an error.
prepareIframeSession(params, defaultCoachId, table, failing) ==
    IF failing = "createClient"
    THEN Prepared(FALSE, "Unknown error", NoConfig, TRUE)
    ELSE IF params.mode = "coach"
    THEN coachBranch(params, defaultCoachId, table, failing)
    ELSE IF params.variant = "coach" /\ params.scenarioId # ""
    THEN personaVariant(params, table, failing)
    ELSE standardMode(params, failing)

\* The requests: the page's combinations of mode, coach_mode and variant, ids
\* that exist and ids that do not.  A parameter takes several values only in
\* the modes whose branch reads it, apart from one unread value kept per mode.
Modes ==
    {<<"coach", "undefined", "undefined">>, <<"coach", "before_training", "undefined">>,
     <<"coach", "after_training", "undefined">>, <<"coach", "notation", "undefined">>,
     <<"coach", "undefined", "coach">>, <<"standard", "undefined", "coach">>,
     <<"standard", "undefined", "undefined">>}
AllParams ==
    {PrepareParams(scenarioId, m[1], refSessionId, coachId, m[2], m[3]) :
        scenarioId \in {"", "sc1", "sc9"},
        m \in Modes,
        refSessionId \in {0, 1, MaxSessions + 2},
        coachId \in {"", "c1", "c9"}}
ParamsSet ==
    {p \in AllParams :
        /\ p.mode # "coach" => (p.refSessionId = 0 /\ p.coachId # "c9")
        /\ p.coachMode \in {"before_training", "notation"} => p.refSessionId = 0
        /\ (p.mode = "coach" /\ p.coachMode = "undefined") => p.scenarioId # "sc9"
        /\ (p.mode = "coach" /\ p.variant = "coach") =>
              (p.refSessionId = 0 /\ p.scenarioId = "sc1")}
Failings == {"none", "createClient", "coaches", "scenarios", "sessions"}

InitPrepare ==
    /\ prepareParams \in ParamsSet
    /\ DEFAULT_COACH_ID \in {"", "c2", "c9"}
    /\ sessions = << >>
    /\ prepared = NotPrepared
    /\ ClientIdle
    /\ ScoreIdle
    /\ PostIdle
    /\ RunsIdle
    /\ TripIdle
    /\ CallIdle

\* createIframeSession(scenarioId) inserts a row with status "active" and
\* duration_seconds 0.  (When the insert fails the table is left as it was.)
CreateIframeSession ==
    /\ Len(sessions) < MaxSessions
    /\ \E sc \in Scenarios :
          sessions' = Append(sessions, Session(sc.id, "active", 0, "null"))
    /\ UNCHANGED <<prepareParams, DEFAULT_COACH_ID, prepared, clientVars,
                   scoreVars, postVars, runsVars, callVars>>

\* (the update has no filter on the id)
CompleteIframeSession_AllRows ==
    /\ \E id \in 1..Len(sessions), durationSeconds \in Durations :
          /\ sessions[id].status # "completed"
          /\ sessions' = [i \in 1..Len(sessions) |->
                             [sessions[i] EXCEPT
                                 !.status = "completed",
                                 !.duration_seconds = durationSeconds]]
    /\ UNCHANGED <<prepareParams, DEFAULT_COACH_ID, prepared, clientVars,
                   scoreVars, postVars, runsVars, callVars>>

\* completeIframeSession(sessionId, durationSeconds) sets the status and the
\* duration of the row with that id.
CompleteIframeSession ==
    /\ \E id \in 1..Len(sessions), durationSeconds \in Durations :
          /\ sessions[id].status # "completed"
          /\ sessions' = [sessions EXCEPT
                             ![id].status = "completed",
                             ![id].duration_seconds = durationSeconds]
    /\ UNCHANGED <<prepareParams, DEFAULT_COACH_ID, prepared, clientVars,
                   scoreVars, postVars, runsVars, callVars>>

\* POST /api/notation stores a result set in the row's notation_json.
NotationSaved ==
    /\ \E id \in 1..Len(sessions) :
          /\ sessions[id].notation_json = "null"
          /\ sessions' = [sessions EXCEPT ![id].notation_json = "obj"]
    /\ UNCHANGED <<prepareParams, DEFAULT_COACH_ID, prepared, clientVars,
                   scoreVars, postVars, runsVars, callVars>>

\* The page calls prepareIframeSession(params) on load; it writes nothing.
PrepareIframeSession ==
    /\ ~prepared.called
    /\ \E failing \in Failings :
          prepared' = prepareIframeSession(prepareParams, DEFAULT_COACH_ID,
                                           sessions, failing)
    /\ UNCHANGED <<prepareParams, DEFAULT_COACH_ID, sessions, clientVars,
                   scoreVars, postVars, runsVars, callVars>>

NextPrepare ==
    \/ CreateIframeSession
    \/ CompleteIframeSession
    \/ NotationSaved
    \/ PrepareIframeSession

SpecPrepare == InitPrepare /\ [][NextPrepare]_vars

\* ------------------------------------------------------------------------
\* POST and GET /api/notation by scenario over the sessions table (SpecTrip)
\* ------------------------------------------------------------------------

\* The POST requests in flight together with the GET request.
PostIds == {1, 2}

\* The scenario the requests by scenario ask for (the table has sessions of
\* the other scenarios too).
ScenarioIds == {"sc1"}

\* The notation object request p saves: no two requests get the same payloads.
ResultOf(p) == "notation " \o ToString(p)

\* from('sessions')...eq('scenario_id', scenario_id).eq('status', 'completed')
\* .order('created_at', {ascending: false}).limit(1).single() of POST: the id
\* of the row, 0 when there is none.
postLatestSession_AnyStatus(table, scenario_id) ==
    LET rows == {i \in 1..Len(table) : table[i].scenario_id = scenario_id}
    IN  IF rows = {} THEN 0
        ELSE CHOOSE i \in rows : \A j \in rows : j <= i
postLatestSession(table, scenario_id) ==
    LET rows == {i \in 1..Len(table) :
                    /\ table[i].scenario_id = scenario_id
                    /\ table[i].status = "completed"}
    IN  IF rows = {} THEN 0
        ELSE CHOOSE i \in rows : \A j \in rows : j <= i

\* The same query of GET, with .not('notation_json', 'is', null).
getSession(table, scenarioId) ==
    LET rows == {i \in 1..Len(table) :
                    /\ table[i].scenario_id = scenarioId
                    /\ table[i].status = "completed"
                    /\ table[i].notation_json # "null"}
    IN  IF rows = {} THEN 0
        ELSE CHOOSE i \in rows : \A j \in rows : j <= i

\* What a select on sessions read of the table: the number of rows and the
\* ids of the completed ones.
Read(table) ==
    [rows |-> Len(table),
     completed |-> {i \in 1..Len(table) : table[i].status = "completed"}]

NotRead == [rows |-> 0, completed |-> {}]

\* A POST request: where it is ("start", "scoring" or "done"), the ids of its
\* body (0 and "" when the body has none), the session it resolved, what its
\* lookup read, whether its update was applied, and the status of its
\* response (0 before).
Post(at, session_id, scenario_id, effectiveSessionId, seen, saved, status) ==
    [at |-> at, session_id |-> session_id, scenario_id |-> scenario_id,
     effectiveSessionId |-> effectiveSessionId, seen |-> seen, saved |-> saved,
     status |-> status]

NotPosted == Post("start", 0, "", 0, NotRead, FALSE, 0)

\* The response of GET: the scenario asked for, the status, and session_id and
\* notation of the body (0 and "null" in an error response).
Got(called, scenarioId, status, session_id, nota) ==
    [called |-> called, scenarioId |-> scenarioId, status |-> status,
     session_id |-> session_id, notation |-> nota]

NotGot == Got(FALSE, "", 0, 0, "null")

\* GET /api/notation?scenario_id=scenarioId over the table.
GET(table, scenarioId) ==
    LET session == getSession(table, scenarioId)
    IN  IF session = 0 THEN Got(TRUE, scenarioId, 404, 0, "null")
        ELSE Got(TRUE, scenarioId, 200, session, table[session].notation_json)

InitTrip ==
    /\ posts = [p \in PostIds |-> NotPosted]
    /\ got = NotGot
    /\ runs = << >>
    /\ notation_json = << >>
    /\ lastWrite = << >>
    /\ ScoreIdle
    /\ PostIdle
    /\ CallIdle
    /\ IframeIdle

\* Steps 1 and 2 of POST p with a scenario_id and no session_id: the lookup of
\* the last completed session, 404 when there is none.
PostByScenario(p) ==
    /\ posts[p].at = "start"
    /\ \E scenario_id \in ScenarioIds :
          LET latest == postLatestSession(sessions, scenario_id)
          IN  posts' = [posts EXCEPT ![p] =
                  IF latest = 0
                  THEN Post("done", 0, scenario_id, 0, Read(sessions), FALSE, 404)
                  ELSE Post("scoring", 0, scenario_id, latest, Read(sessions),
                            FALSE, 0)]
    /\ UNCHANGED <<got, runs, notation_json, lastWrite,
                   scoreVars, postVars, callVars, iframeVars>>

\* Steps 1 and 2 of POST p with a session_id: the session is taken as given.
PostBySession(p) ==
    /\ posts[p].at = "start"
    /\ \E session_id \in 1..Len(sessions) :
          posts' = [posts EXCEPT ![p] =
                       Post("scoring", session_id, "", session_id, Read(sessions),
                            FALSE, 0)]
    /\ UNCHANGED <<got, runs, notation_json, lastWrite,
                   scoreVars, postVars, callVars, iframeVars>>

\* POST p ends without an update (here with the 500 of a failed update; the
\* early 404 and the result with no key leave the table alone as well).
PostEnds(p) ==
    /\ posts[p].at = "scoring"
    /\ posts' = [posts EXCEPT ![p].at = "done", ![p].status = 500]
    /\ UNCHANGED <<got, runs, notation_json, lastWrite,
                   scoreVars, postVars, callVars, iframeVars>>

\* The update of POST p is applied and the request answers 200.
PostPersists(p) ==
    /\ posts[p].at = "scoring"
    /\ sessions' = [sessions EXCEPT
                       ![posts[p].effectiveSessionId].notation_json = ResultOf(p)]
    /\ posts' = [posts EXCEPT ![p].at = "done", ![p].saved = TRUE,
                              ![p].status = 200]
    /\ UNCHANGED <<got, runs, notation_json, lastWrite, prepareParams,
                   DEFAULT_COACH_ID, prepared, clientVars, scoreVars, postVars,
                   callVars>>

\* The GET request, for a scenario.
Get ==
    /\ ~got.called
    /\ \E scenarioId \in ScenarioIds : got' = GET(sessions, scenarioId)
    /\ UNCHANGED <<posts, runs, notation_json, lastWrite,
                   scoreVars, postVars, callVars, iframeVars>>

NextTrip ==
    \/ CreateIframeSession
    \/ CompleteIframeSession
    \/ \E p \in PostIds :
          \/ PostByScenario(p)
          \/ PostBySession(p)
          \/ PostEnds(p)
          \/ PostPersists(p)
    \/ Get

SpecTrip == InitTrip /\ [][NextTrip]_vars

\* ------------------------------------------------------------------------
\* The iframe client component (SpecLog, SpecClient)
\* ------------------------------------------------------------------------

\* the number of realtime events delivered on the data channel
MaxEvents == 3

\* A string is a sequence of characters; a transcript the event does not carry
\* is the empty one (both are falsy).
TranscriptTexts == {<< >>, <<" ">>, <<"a">>, <<"a", " ">>, <<"b">>}

\* String.prototype.trim.
RECURSIVE trimStart(_)
trimStart(s) == IF s # << >> /\ Head(s) = " " THEN trimStart(Tail(s)) ELSE s

RECURSIVE trimEnd(_)
trimEnd(s) ==
    IF s # << >> /\ s[Len(s)] = " " THEN trimEnd(SubSeq(s, 1, Len(s) - 1)) ELSE s

trim(s) == trimEnd(trimStart(s))

\* A realtime event: event_id is "" when the event carries none.
RealtimeEvent(type, transcript, event_id) ==
    [type |-> type, transcript |-> transcript, event_id |-> event_id]

UserTranscription == "conversation.item.input_audio_transcription.completed"
AssistantTranscript == "response.audio_transcript.done"

RealtimeEvents ==
    {RealtimeEvent(type, transcript, event_id) :
        type \in {UserTranscription, AssistantTranscript},
        transcript \in TranscriptTexts, event_id \in {"", "e1", "e2"}}
    \cup {RealtimeEvent("output_audio_buffer.started", << >>, "e1")}

\* The events of the runs in which the status of the client is followed.
SomeEvents ==
    {RealtimeEvent(UserTranscription, <<"a">>, ""),
     RealtimeEvent(AssistantTranscript, <<"b">>, "e1"),
     RealtimeEvent(AssistantTranscript, <<" ">>, "")}

ConversationMessage(role, content, timestamp) ==
    [role |-> role, content |-> content, timestamp |-> timestamp]

\* The two refs of the conversation tracking.
Refs(conversation, processed) ==
    [conversation |-> conversation, processed |-> processed]

\* addMessageToRef(role, content, eventId) at time now (lines 191-208).
addMessageToRef_NoIdCheck(refs, role, content, eventId, now) ==
    IF trim(content) = << >> THEN refs
    ELSE LET trimmedContent == trim(content)
             log == refs.conversation
         IN  IF /\ log # << >>
                /\ log[Len(log)].role = role
                /\ log[Len(log)].content = trimmedContent
             THEN refs
             ELSE Refs(Append(log, ConversationMessage(role, trimmedContent, now)),
                       refs.processed)
addMessageToRef(refs, role, content, eventId, now) ==
    IF trim(content) = << >> THEN refs
    ELSE IF eventId # "" /\ eventId \in refs.processed THEN refs
    ELSE LET processed == IF eventId # "" THEN refs.processed \cup {eventId}
                          ELSE refs.processed
             trimmedContent == trim(content)
             log == refs.conversation
         IN  IF /\ log # << >>
                /\ log[Len(log)].role = role
                /\ log[Len(log)].content = trimmedContent
             THEN Refs(log, processed)
             ELSE Refs(Append(log, ConversationMessage(role, trimmedContent, now)),
                       processed)

\* handleRealtimeEvent(event), as far as the conversation goes (lines 210-224).
handleRealtimeEvent(refs, event, now) ==
    IF event.type = UserTranscription /\ event.transcript # << >>
    THEN addMessageToRef(refs, "user", event.transcript, event.event_id, now)
    ELSE IF event.type = AssistantTranscript /\ event.transcript # << >>
    THEN addMessageToRef(refs, "assistant", event.transcript, event.event_id, now)
    ELSE refs

\* dc.onmessage: an event of events arrives on the open data channel.  The
\* timestamp of a message is the time of arrival, here the rank of the event.
OnMessage(events) ==
    /\ connectionState = "connected"
    /\ Len(delivered) < MaxEvents
    /\ \E event \in events :
          LET now == Len(delivered) + 1
              refs == handleRealtimeEvent(Refs(conversationRef, processedEventIds),
                                          event, now)
          IN  /\ delivered' = Append(delivered, event)
              /\ conversationRef' = refs.conversation
              /\ processedEventIds' = refs.processed
    /\ UNCHANGED <<clientStatus, clientConfig, startSessionAt, connectionHandler,
                   connectionState, saveRequests, prepareParams, DEFAULT_COACH_ID,
                   sessions, prepared, scoreVars, postVars, runsVars, callVars>>

ClientOthersIdle ==
    /\ prepareParams = << >>
    /\ DEFAULT_COACH_ID = ""
    /\ sessions = << >>
    /\ prepared = << >>
    /\ ScoreIdle
    /\ PostIdle
    /\ RunsIdle
    /\ TripIdle
    /\ CallIdle

\* The conversation of one session, from the moment the connection is up:
\* startSession has emptied the two refs (lines 274-275).
InitLog ==
    /\ clientStatus = "connected"
    /\ clientConfig = "loaded"
    /\ startSessionAt = "over"
    /\ connectionHandler = TRUE
    /\ connectionState = "connected"
    /\ saveRequests = << >>
    /\ conversationRef = << >>
    /\ processedEventIds = {}
    /\ delivered = << >>
    /\ ClientOthersIdle

DataChannelMessage == OnMessage(RealtimeEvents)

NextLog == DataChannelMessage

SpecLog == InitLog /\ [][NextLog]_vars

\* The component from its mount on.
InitClient ==
    /\ clientStatus = "loading"
    /\ clientConfig = "null"
    /\ startSessionAt = "idle"
    /\ connectionHandler = FALSE
    /\ connectionState = ""
    /\ saveRequests = << >>
    /\ conversationRef = << >>
    /\ processedEventIds = {}
    /\ delivered = << >>
    /\ ClientOthersIdle

\* The init effect: prepareIframeSession returns a configuration, or fails or
\* throws (lines 137-162).
InitEffect ==
    /\ clientStatus = "loading"
    /\ \E success \in BOOLEAN :
          IF success
          THEN clientConfig' = "loaded" /\ clientStatus' = "ready"
          ELSE clientConfig' = clientConfig /\ clientStatus' = "error"
    /\ UNCHANGED <<startSessionAt, connectionHandler, connectionState, saveRequests,
                   conversationRef, processedEventIds, delivered, prepareParams,
                   DEFAULT_COACH_ID, sessions, prepared, scoreVars, postVars,
                   runsVars, callVars>>

\* The user clicks the start button, shown while the status is "ready":
\* startSession up to the await of getUserMedia (lines 268-281).
StartSession ==
    /\ clientStatus = "ready"
    /\ clientConfig = "loaded"
    /\ startSessionAt = "idle"
    /\ clientStatus' = "connecting"
    /\ conversationRef' = << >>
    /\ processedEventIds' = {}
    /\ startSessionAt' = "media"
    /\ UNCHANGED <<clientConfig, connectionHandler, connectionState, saveRequests,
                   delivered, prepareParams, DEFAULT_COACH_ID, sessions, prepared,
                   scoreVars, postVars, runsVars, callVars>>

\* An awaited call of startSession resolves: the microphone (the connection
\* is then created), the token, the SDP answer (the handler of connection
\* state changes is then set), lines 281-384.
StartSessionProceeds ==
    /\ startSessionAt \in {"media", "token", "sdp"}
    /\ startSessionAt' = CASE startSessionAt = "media" -> "token"
                           [] startSessionAt = "token" -> "sdp"
                           [] startSessionAt = "sdp" -> "over"
    /\ connectionState' = IF startSessionAt = "media" THEN "new" ELSE connectionState
    /\ connectionHandler' = (startSessionAt = "sdp")
    /\ UNCHANGED <<clientStatus, clientConfig, saveRequests, conversationRef,
                   processedEventIds, delivered, prepareParams, DEFAULT_COACH_ID,
                   sessions, prepared, scoreVars, postVars, runsVars, callVars>>

\* An awaited call of startSession rejects, or a response is not ok: the catch
\* clause (lines 386-393).
StartSessionFails ==
    /\ startSessionAt \in {"media", "token", "sdp"}
    /\ startSessionAt' = "over"
    /\ clientStatus' = "error"
    /\ UNCHANGED <<clientConfig, connectionHandler, connectionState, saveRequests,
                   conversationRef, processedEventIds, delivered, prepareParams,
                   DEFAULT_COACH_ID, sessions, prepared, scoreVars, postVars,
                   runsVars, callVars>>

\* The states pc.connectionState may take after from, while the connection is
\* not closed.
NextConnectionStates(from) ==
    CASE from = "new" -> {"connecting"}
      [] from = "connecting" -> {"connected", "failed"}
      [] from = "connected" -> {"disconnected"}
      [] from = "disconnected" -> {"connected", "failed"}
      [] OTHER -> {}

\* pc.onconnectionstatechange (lines 361-383).
onconnectionstatechange(current, state) ==
    IF state = "connected" THEN "connected"
    ELSE IF state \in {"failed", "disconnected"} THEN "error"
    ELSE current

\* The connection changes state and the handler runs.
ConnectionStateChange ==
    /\ connectionHandler
    /\ \E state \in NextConnectionStates(connectionState) :
          /\ connectionState' = state
          /\ clientStatus' = onconnectionstatechange(clientStatus, state)
    /\ UNCHANGED <<clientConfig, startSessionAt, connectionHandler, saveRequests,
                   conversationRef, processedEventIds, delivered, prepareParams,
                   DEFAULT_COACH_ID, sessions, prepared, scoreVars, postVars,
                   runsVars, callVars>>

\* The user clicks the hang-up button, enabled while the status is
\* "connected": endSession (lines 396-425).  cleanup closes the connection.
endSession(requests, messages) ==
    IF Len(messages) > 0 THEN Append(requests, Len(messages)) ELSE requests

EndSession ==
    /\ clientStatus = "connected"
    /\ clientStatus' = "ended"
    /\ connectionState' = "closed"
    /\ saveRequests' = IF clientConfig = "loaded"
                       THEN endSession(saveRequests, conversationRef)
                       ELSE saveRequests
    /\ UNCHANGED <<clientConfig, startSessionAt, connectionHandler, conversationRef,
                   processedEventIds, delivered, prepareParams, DEFAULT_COACH_ID,
                   sessions, prepared, scoreVars, postVars, runsVars, callVars>>

SomeDataChannelMessage == OnMessage(SomeEvents)

NextClient ==
    \/ InitEffect
    \/ StartSession
    \/ StartSessionProceeds
    \/ StartSessionFails
    \/ ConnectionStateChange
    \/ SomeDataChannelMessage
    \/ EndSession

SpecClient == InitClient /\ [][NextClient]_vars

\* ------------------------------------------------------------------------
\* Claims on the score computation (checked under SpecScore)
\* ------------------------------------------------------------------------

\* The steps of the notation object handed in, as the evaluator returned them.
StepsIn == etapesOf(notationIn)

\* A step resolves to a code by its explicit code or, without one, by the
\* numeric prefix of its title (1 to D, 2 to A, 3 to G, 4 to O).
ResolvesTo(e, code) ==
    /\ ~e.nul
    /\ \/ e.code = code
       \/ e.code = "undefined" /\ e.prefix = PrefixOf(code)

\* A step the evaluator returned resolves to one of D, A, G, O.
Resolvable(e) == \E c \in {"D", "A", "G", "O"} : ResolvesTo(e, c)

StepsOf(code) == {i \in 1..Len(StepsIn) : ResolvesTo(StepsIn[i], code)}

\* The steps resolve to D, A, G and O, one step each, with scores that are
\* numbers within [0, 100].
StepsResolvedDAGO ==
    /\ \A i \in 1..Len(StepsIn) : ~StepsIn[i].nul
    /\ \A c \in {"D", "A", "G", "O"} :
          /\ Cardinality(StepsOf(c)) = 1
          /\ \A i \in StepsOf(c) :
                /\ StepsIn[i].score.t = "number"
                /\ StepsIn[i].score.v >= 0
                /\ StepsIn[i].score.v <= 10000

ScoreIn(code) == StepsIn[CHOOSE i \in StepsOf(code) : TRUE].score.v

\* A step score that is not a number in [0, 100].
Malformed(score) == score.t # "number" \/ score.v < 0 \/ score.v > 10000

\* No null step, and every code has exactly one step resolving to it.
StepsResolvedOnce ==
    /\ \A i \in 1..Len(StepsIn) : ~StepsIn[i].nul
    /\ \A c \in {"D", "A", "G", "O"} : Cardinality(StepsOf(c)) = 1

WholeScoresIn == \A c \in {"D", "A", "G", "O"} : ScoreIn(c) % 100 = 0

\* 0.20 sD + 0.30 sA + 0.25 sG + 0.25 sO, exactly, in units of 1/10000.
WeightedSumIn ==
    20 * ScoreIn("D") + 30 * ScoreIn("A") + 25 * ScoreIn("G") + 25 * ScoreIn("O")

\* The multiple of 5 nearest to WeightedSumIn (a tie going up), fixed-point.
NearestFiveOfSum == ((WeightedSumIn + 25000) \div 50000) * 500

\* C1 as stated: for steps resolved to D, A, G, O with scores in [0, 100], the
\* composite score_global.valeur equals roundToStep(0.20 sD + 0.30 sA + 0.25 sG
\* + 0.25 sO, 5) and lies in [0, 100].
C1_CompositeIsRoundedWeightedSum ==
    (outcome = "returned" /\ StepsResolvedDAGO) =>
        /\ notationOut.score_global.t = "obj"
        /\ notationOut.score_global.valeur = NearestFiveOfSum
        /\ notationOut.score_global.valeur >= 0
        /\ notationOut.score_global.valeur <= 10000

\* C1 amended: the equality holds when the four scores are whole numbers; for
\* any scores in [0, 100] the composite is a multiple of 5 within [0, 100].
C1_CompositeOfWholeScores ==
    (outcome = "returned" /\ StepsResolvedDAGO) =>
        /\ notationOut.score_global.t = "obj"
        /\ WholeScoresIn => notationOut.score_global.valeur = NearestFiveOfSum
        /\ notationOut.score_global.valeur % 500 = 0
        /\ notationOut.score_global.valeur >= 0
        /\ notationOut.score_global.valeur <= 10000

\* The example of C1: D = 80, A = 0, G = 60, O = 0 gives the contributions
\* 16, 0, 15, 0 and the composite 30.
C1_Witness ==
    /\ outcome = "returned"
    /\ StepsResolvedDAGO
    /\ ScoreIn("D") = 8000 /\ ScoreIn("A") = 0
    /\ ScoreIn("G") = 6000 /\ ScoreIn("O") = 0
    /\ notationOut.score_global.valeur = 3000
    /\ notationOut.score_global.detail_calcul[1].contribution = 1600
    /\ notationOut.score_global.detail_calcul[3].contribution = 1500

\* The methodology payload handed in carries a non-empty array of steps: the
\* case in which a composite is computed.
HasStepsIn == Len(StepsIn) > 0

\* A payload holds the composite sg.
HoldsComposite(payload, sg) ==
    /\ payload.t = "obj"
    /\ "score_global" \in DOMAIN payload
    /\ payload.score_global = sg

\* The composite of the result set, wherever the computation put it.
CompositeOut ==
    IF notationOut.score_global.t = "obj" THEN notationOut.score_global
    ELSE IF notationOut.synthese.t = "obj"
            /\ "score_global" \in DOMAIN notationOut.synthese
         THEN notationOut.synthese.score_global
         ELSE Undefined

\* C9 as stated: whenever the composite is computed it is merged into the
\* synthesis payload, one being created when the synthesis evaluator produced
\* none, so a result set with a composite has a synthesis entry holding it.
C9_CompositeInSynthese ==
    (outcome = "returned" /\ HasStepsIn) =>
        /\ HasKey(notationOut, "synthese")
        /\ HoldsComposite(notationOut.synthese, CompositeOut)

\* C9 amended: whenever the composite is computed it is stored under the result
\* set's own key score_global, beside the rubric entries; the synthesis entry
\* is left as the evaluator returned it, and none is created.
C9_CompositeBesideRubrics ==
    (outcome = "returned" /\ HasStepsIn) =>
        /\ HasKey(notationOut, "score_global")
        /\ notationOut.score_global.t = "obj"
        /\ notationOut.synthese = notationIn.synthese
        /\ HasKey(notationOut, "synthese") <=> HasKey(notationIn, "synthese")

\* A composite was computed for a result set without synthesis entry.
C9_Witness ==
    /\ outcome = "returned"
    /\ HasStepsIn
    /\ ~HasKey(notationIn, "synthese")
    /\ notationOut.score_global.t = "obj"
    /\ ~HasKey(notationOut, "synthese")

\* C10 as stated: the composite injection cannot fail: for every result set
\* collected from the evaluators, a methodology payload with malformed or null
\* steps included, injectScoreGlobal returns without raising.
C10_InjectNeverThrows == outcome # "thrown"

\* The value clamp0_100 is specified to give a step score: 0 for a value that
\* is no number or is NaN, the nearest bound for a number outside [0, 100].
Clamped(score) ==
    IF score.t # "number" THEN 0
    ELSE IF score.v < 0 THEN 0
    ELSE IF score.v > 10000 THEN 10000
    ELSE score.v

\* The steps the lookup of a code can return: those that carry the code and
\* those whose title carries the code's numeric prefix.
Feeds(e, code) == ~e.nul /\ (e.code = code \/ e.prefix = PrefixOf(code))
FeedersOf(code) == {i \in 1..Len(StepsIn) : Feeds(StepsIn[i], code)}

\* The lines of detail_calcul in the result, and the steps after annotation.
DetailOut == notationOut.score_global.detail_calcul
StepsOut == etapesOf(notationOut)

\* C18: a step score that is non-numeric, NaN, below 0 or above 100 is clamped
\* into [0, 100] before weighting (non-numeric and NaN to 0), so whenever a
\* composite is computed, its value, the four weighted contributions and the
\* contribution written on every step that resolves to a code are numbers in
\* range.
C18_ScoresClamped ==
    (outcome = "returned" /\ HasStepsIn) =>
        /\ notationOut.score_global.valeur >= 0
        /\ notationOut.score_global.valeur <= 10000
        /\ \A k \in 1..Len(DetailOut) :
              /\ DetailOut[k].score_etape >= 0
              /\ DetailOut[k].score_etape <= 10000
              /\ DetailOut[k].contribution >= 0
              /\ DetailOut[k].contribution <= DetailOut[k].poids * Hundred
              /\ Cardinality(FeedersOf(DetailOut[k].code)) = 1 =>
                    \A i \in FeedersOf(DetailOut[k].code) :
                        DetailOut[k].score_etape = Clamped(StepsIn[i].score)
        /\ \A i \in 1..Len(StepsOut) :
              Resolvable(StepsIn[i]) =>
                  /\ StepsOut[i].score = Num(Clamped(StepsIn[i].score))
                  /\ StepsOut[i].contribution_score_global.t = "number"
                  /\ StepsOut[i].contribution_score_global.v >= 0
                  /\ StepsOut[i].contribution_score_global.v <= 3000

\* A composite was computed from a score that is no number, NaN, a score below
\* 0 and a score above 100.
C18_Witness ==
    /\ outcome = "returned"
    /\ StepsResolvedOnce
    /\ \E i \in 1..Len(StepsIn) : StepsIn[i].score = NotNumber
    /\ \E i \in 1..Len(StepsIn) : StepsIn[i].score = NaN
    /\ \E i \in 1..Len(StepsIn) : StepsIn[i].score = Num(-500)
    /\ \E i \in 1..Len(StepsIn) : StepsIn[i].score = Num(15000)
    /\ notationOut.score_global.valeur = 2500

\* The codes that have no step: no step carries the code and no title carries
\* its prefix.
MissingCodes == {c \in {"D", "A", "G", "O"} : FeedersOf(c) = {}}

\* No null step, every code has at most one step, and the scores are whole
\* numbers within [0, 100].
AtMostOneStepPerCode ==
    /\ \A i \in 1..Len(StepsIn) : ~StepsIn[i].nul
    /\ \A c \in {"D", "A", "G", "O"} :
          /\ Cardinality(FeedersOf(c)) <= 1
          /\ \A i \in FeedersOf(c) :
                ~Malformed(StepsIn[i].score) /\ StepsIn[i].score.v % 100 = 0

\* The score of a code's only step.
FedScore(code) == StepsIn[CHOOSE i \in FeedersOf(code) : TRUE].score.v

\* The weight table of the specification, in hundredths.
FixedWeight(code) ==
    CASE code = "D" -> 20 [] code = "A" -> 30 [] code = "G" -> 25 [] code = "O" -> 25

\* The weighted sum over the four fixed weights, a missing code counting 0, in
\* units of 1/10000.
SumOverFixedWeights ==
    LET part(c) == IF c \in MissingCodes THEN 0 ELSE FixedWeight(c) * FedScore(c)
    IN  part("D") + part("A") + part("G") + part("O")

C20_Extremes ==
    (outcome = "returned" /\ StepsResolvedDAGO) =>
        /\ (\A c \in {"D", "A", "G", "O"} : ScoreIn(c) = 0) =>
              /\ notationOut.score_global.valeur = 0
              /\ notationOut.score_global.niveau_performance = "faible"
        /\ (\A c \in {"D", "A", "G", "O"} : ScoreIn(c) = 10000) =>
              /\ notationOut.score_global.valeur = 10000
              /\ notationOut.score_global.niveau_performance = "excellent"

\* The four steps, found by the prefix of their titles, all score 100.
C20_Witness ==
    /\ outcome = "returned"
    /\ StepsResolvedDAGO
    /\ \A i \in 1..Len(StepsIn) : StepsIn[i].code = "undefined"
    /\ \A c \in {"D", "A", "G", "O"} : ScoreIn(c) = 10000
    /\ notationOut.score_global.valeur = 10000
    /\ notationOut.score_global.niveau_performance = "excellent"

\* ------------------------------------------------------------------------
\* Claims on the request (checked under Spec)
\* ------------------------------------------------------------------------

TabAt(i) == NOTATION_TABS[i]
Methodo == CHOOSE i \in TabIndexes : TabAt(i) = "methodo"

\* The fan-out was reached: steps 1 to 4 succeeded and the calls were started.
FanoutReached == promptsMap # {}

\* The join is behind: the handler went on after Promise.all.
AfterJoin == FanoutReached /\ pc \in {"saving", "done"}

\* The evaluator call of tab i failed: a network error, a non-2xx response or
\* a text that is no JSON.
EvaluatorFailed(i) ==
    \/ replies[i].kind \in {"network", "http"}
    \/ replies[i].kind = "text" /\ ~replies[i].valid

\* The call of tab i failed: its evaluator call did, or it had no prompt.
Failed(i) == EvaluatorFailed(i) \/ (FanoutReached /\ TabAt(i) \notin promptsMap)

\* The evaluator call of tab i produced a payload.
ProducedPayload(i) ==
    replies[i].kind = "text" /\ replies[i].valid /\ replies[i].json.t = "obj"

FailedKinds == {i \in TabIndexes : Failed(i)}

\* The entries "<kind>: <message>" errors may hold about a kind.
EntriesAbout(tab) ==
    {tab \o ": " \o m :
        m \in {"fetch failed", "Erreur API OpenAI", "Format de reponse invalide",
               "Prompt non trouve pour " \o tab}}

ErrorsAbout(tab) == {k \in 1..Len(errors) : errors[k] \in EntriesAbout(tab)}

MethodoStepsReturned ==
    IF ProducedPayload(Methodo) /\ replies[Methodo].json.etapes.t = "array"
    THEN replies[Methodo].json.etapes.items
    ELSE << >>

\* C2 as stated: when the calls of a non-empty set F of kinds fail, methodo not
\* among them and not all four, the result set has an entry for exactly the
\* kinds outside F, errors has exactly one entry per kind of F, and the
\* composite score is computed.
C2_PartialFailure ==
    (/\ AfterJoin
     /\ FailedKinds # {}
     /\ Methodo \notin FailedKinds
     /\ FailedKinds # TabIndexes) =>
        /\ \A i \in TabIndexes : HasKey(notation, TabAt(i)) <=> i \notin FailedKinds
        /\ Len(errors) = Cardinality(FailedKinds)
        /\ \A i \in FailedKinds : Cardinality(ErrorsAbout(TabAt(i))) = 1
        /\ HasKey(notation, "score_global")

\* C3: when all four calls fail, no store write occurs, the caller receives
\* errors with four entries, one per kind, and the result carries no composite.
C3_TotalFailure ==
    (AfterJoin /\ FailedKinds = TabIndexes) =>
        /\ pc = "done"
        /\ updates = 0
        /\ store = PriorNotation
        /\ response.status = 200
        /\ response.errors.t = "array"
        /\ Len(response.errors.items) = 4
        /\ \A i \in TabIndexes : response.errors.items[i] \in EntriesAbout(TabAt(i))
        /\ response.notation.keys = << >>
        /\ response.notation.score_global = Undefined

\* All four calls failed, three of them at the evaluator, and the caller has
\* its answer.
C3_Witness ==
    /\ pc = "done"
    /\ FailedKinds = TabIndexes
    /\ Cardinality({i \in TabIndexes : EvaluatorFailed(i)}) >= 3
    /\ response.status = 200

\* C4: while one of the four calls is pending, the run has computed no
\* composite, issued no store write and answered nothing, whatever the other
\* calls returned.
C4_ForkJoin ==
    (FanoutReached /\ \E i \in TabIndexes : results[i].st = "pending") =>
        /\ pc = "fanout"
        /\ notation = EmptyNotation
        /\ errors = << >>
        /\ updates = 0
        /\ store = PriorNotation
        /\ response = NoResponse

\* Three calls have settled, a failure and a payload among them, and the
\* fourth is pending.
C4_Witness ==
    /\ pc = "fanout"
    /\ Cardinality({i \in TabIndexes : results[i].st = "pending"}) = 1
    /\ \E i \in TabIndexes : EvaluatorFailed(i)
    /\ \E i \in TabIndexes : ProducedPayload(i)

\* The errors a run reports, kind by kind in the fixed order.
RECURSIVE ErrorsInKindOrder(_)
ErrorsInKindOrder(n) ==
    IF n = 0 THEN << >>
    ELSE ErrorsInKindOrder(n - 1)
         \o (IF Failed(n) THEN <<TabAt(n) \o ": " \o results[n].error>> ELSE << >>)

\* C5: whatever the order the calls completed in, errors and the keys of the
\* result set follow the fixed order synthese, methodo, discours,
\* transcription, and both are determined by what the calls returned.
C5_FixedKindOrder ==
    AfterJoin =>
        /\ errors = ErrorsInKindOrder(4)
        /\ SelectSeq(notation.keys, LAMBDA k : k # "score_global")
              = SelectSeq(<<"synthese", "methodo", "discours", "transcription">>,
                          LAMBDA k : HasKey(notation, k))
        /\ \A i \in TabIndexes :
              HasKey(notation, TabAt(i)) <=> Truthy(replies[i].json)
        /\ \A i \in TabIndexes \ {Methodo} :
              HasKey(notation, TabAt(i)) => notation[TabAt(i)] = replies[i].json

\* The calls completed in the reverse of the kind order, synthese and discours
\* failing, methodo and transcription giving a payload.
C5_Witness ==
    /\ AfterJoin
    /\ arrival = <<4, 3, 2, 1>>
    /\ Len(errors) = 2
    /\ errors[1] \in EntriesAbout("synthese")
    /\ errors[2] \in EntriesAbout("discours")
    /\ HasKey(notation, "methodo") /\ HasKey(notation, "transcription")

\* C6 as stated: after the join every kind is a key of the result set or the
\* subject of an entry of errors, and a kind is a key only if its evaluator
\* call produced a payload.
C6_EveryKindAccounted ==
    AfterJoin =>
        \A i \in TabIndexes :
            /\ HasKey(notation, TabAt(i)) \/ ErrorsAbout(TabAt(i)) # {}
            /\ HasKey(notation, TabAt(i)) => ProducedPayload(i)

\* C7: an evaluator failure always becomes a returned result object with no
\* payload and an error string; callOpenAI never throws, the sibling calls keep
\* what their evaluator returned, and the request does not end in the generic
\* internal-server-error response because of it.
C7_FailureIsReturned ==
    /\ \A i \in TabIndexes : results[i].st \in {"pending", "settled"}
    /\ \A i \in TabIndexes :
          EvaluatorFailed(i) =>
              /\ results[i].st = "settled"
              /\ results[i].tab = TabAt(i)
              /\ results[i].result = NullValue
              /\ results[i].error # ""
    /\ \A i \in TabIndexes :
          (replies[i].kind = "text" /\ replies[i].valid) =>
              /\ results[i].st = "settled"
              /\ results[i].result = replies[i].json
              /\ results[i].error = ""
    /\ (FanoutReached /\ response = ErrorResponse(500, "Erreur interne du serveur"))
          => \E k \in 1..Len(MethodoStepsReturned) : MethodoStepsReturned[k].nul

\* Three evaluator calls failed, one in each way, and the caller got the
\* result of the fourth with the composite.
C7_Witness ==
    /\ pc = "done"
    /\ response.status = 200
    /\ \E i \in TabIndexes : replies[i].kind = "network"
    /\ \E i \in TabIndexes : replies[i].kind = "http"
    /\ \E i \in TabIndexes : replies[i].kind = "text" /\ ~replies[i].valid
    /\ HasKey(response.notation, "score_global")

\* C8 as stated: when the methodology result is absent from the result set or
\* none of its steps resolves to D, A, G or O, the composite is omitted from
\* the result set and errors gets no entry for it.
C8_NoCompositeWithoutSteps ==
    (/\ AfterJoin
     /\ \/ ~HasKey(notation, "methodo")
        \/ \A k \in 1..Len(MethodoStepsReturned) :
              ~Resolvable(MethodoStepsReturned[k])) =>
        /\ ~HasKey(notation, "score_global")
        /\ notation.score_global = Undefined
        /\ Len(errors) = Cardinality(FailedKinds)

\* C11 as stated: a store write is attempted if and only if at least one
\* evaluator call produced a payload; it is attempted at most once, after the
\* join and the composite injection, and the value written holds the composite
\* when one was computed.
C11_WriteIffSuccess ==
    /\ updates <= 1
    /\ updates = 1 => AfterJoin
    /\ AfterJoin => (updates = 1 <=> \E i \in TabIndexes : ProducedPayload(i))
    /\ pc = "saving" =>
          (HasKey(notation, "score_global") <=> Len(MethodoStepsReturned) > 0)
    /\ store # PriorNotation => store = notation

\* C13 as stated: when the store write fails after a successful computation,
\* the response carries both the computed result set and the store failure.
C13_WriteFailureCarriesResult ==
    updateError = "error" =>
        /\ response.error = "Erreur sauvegarde en base"
        /\ response.notation = notation

\* C13 amended: when the store write fails, the response is the 500 error
\* "Erreur sauvegarde en base" alone: it carries neither the computed result
\* set nor the list of evaluator errors, and nothing was stored.
C13_WriteFailureLosesResult ==
    updateError = "error" =>
        /\ pc = "done"
        /\ hasKeys(notation)
        /\ response.status = 500
        /\ response.error = "Erreur sauvegarde en base"
        /\ response.notation = Undefined
        /\ response.tabs_processed = Undefined
        /\ response.errors = Undefined
        /\ store = PriorNotation

\* The write of a result set with its composite and one evaluator error failed.
C13_Witness ==
    /\ updateError = "error"
    /\ HasKey(notation, "score_global")
    /\ Len(errors) = 1
    /\ response.status = 500

\* Steps 1 to 4 ended without a session or without a transcript turn.
NothingToEvaluate ==
    /\ request.step # "none"
    /\ request.effectiveSessionId = "" \/ Len(request.messages) = 0

\* C14: if no session resolves from the request or the resolved session has no
\* transcript turn, the request ends with an error response, no evaluator call
\* is issued and no store write happens.
C14_NoSessionNoRun ==
    /\ NothingToEvaluate =>
          /\ pc = "done"
          /\ response.status \in {400, 404, 500}
          /\ response.error # ""
          /\ response.notation = Undefined
          /\ promptsMap = {}
          /\ \A i \in TabIndexes : results[i] = Pending /\ replies[i] = NoReply
          /\ updates = 0
          /\ store = PriorNotation
    /\ (request.session_id = "" /\ request.scenario_id = "" /\ request.step # "none")
          => request.effectiveSessionId = ""

\* The scenario's last completed session was found and has no message.
C14_Witness ==
    /\ request.step = "messages"
    /\ request.scenario_id = "sc1"
    /\ request.effectiveSessionId = "s1"
    /\ Len(request.messages) = 0
    /\ response.status = 404

\* The evaluator was sent a request for tab i.
EvaluatorCalled(i) == replies[i] # NoReply

LevelOf(score) ==
    CASE score <= 4000 -> "faible"
      [] score > 4000 /\ score <= 6500 -> "moyen"
      [] score > 6500 /\ score <= 8500 -> "bon"
      [] score > 8500 -> "excellent"

\* C17: niveauPerformance is closed-inclusive on the upper bound for every score
\* in 0..100: at most 40 is faible, above 40 up to 65 moyen, above 65 up to 85
\* bon, above 85 excellent; 40 is faible, 41 and 65 moyen, 66 and 85 bon, 86
\* excellent.
C17_LevelsInclusiveAbove ==
    call.fn = "niveauPerformance" =>
        /\ call.ret.v = LevelOf(call.arg.v)
        /\ call.arg.v = 4000 => call.ret.v = "faible"
        /\ call.arg.v \in {4100, 6500} => call.ret.v = "moyen"
        /\ call.arg.v \in {6600, 8500} => call.ret.v = "bon"
        /\ call.arg.v = 8600 => call.ret.v = "excellent"
        /\ call.arg.v \in {4001, 6501, 8501} => call.ret.v # LevelOf(call.arg.v - 1)

\* niveauPerformance was called with the boundary 65 and returned moyen.
C17_Witness ==
    /\ call.fn = "niveauPerformance"
    /\ call.arg = Num(6500)
    /\ call.ret.v = "moyen"

\* ------------------------------------------------------------------------
\* Claims on the stored notation (checked under SpecRuns)
\* ------------------------------------------------------------------------

\* The update of request r is applied in this step.
Persists(r) ==
    /\ runs[r].pc = "saving"
    /\ runs'[r].pc = "done"
    /\ runs'[r].updateError = "null"

\* C12: after a successful persist for a session, the stored value of that
\* session is exactly the result set of that run: a kind that was stored before
\* and failed in this run is no longer there, nothing of the earlier value is
\* merged in, and the stored value of every other session is unchanged.
C12_Overwrite ==
    [][\A r \in RunIds :
          Persists(r) =>
              LET sid == runs[r].effectiveSessionId
              IN  /\ notation_json'[sid] = runs[r].notation
                  /\ runs'[r].response.notation = notation_json'[sid]
                  /\ \A k \in {"synthese", "methodo", "discours", "transcription"} :
                        HasKey(notation_json'[sid], k) <=> HasKey(runs[r].notation, k)
                  /\ \A k \in {"synthese", "methodo", "discours", "transcription"} :
                        ~HasKey(runs[r].notation, k) => notation_json'[sid][k] = Undefined
                  /\ \A s \in SessionIds \ {sid} : notation_json'[s] = notation_json[s]
    ]_vars

\* A request for s1 whose synthese and discours calls failed has overwritten
\* the value an earlier run stored with these two kinds; s2 keeps its value.
C12_Witness ==
    /\ \E r \in RunIds :
          /\ lastWrite["s1"] = r
          /\ runs[r].pc = "done"
          /\ Len(runs[r].errors) = 2
          /\ notation_json["s1"] = runs[r].notation
    /\ HasKey(PriorNotation, "synthese") /\ HasKey(PriorNotation, "discours")
    /\ ~HasKey(notation_json["s1"], "synthese")
    /\ ~HasKey(notation_json["s1"], "discours")
    /\ HasKey(notation_json["s1"], "score_global")
    /\ notation_json["s2"] = PriorNotation

\* C16: with two or more runs for the same session interleaved in any way, the
\* stored value of the session is at every moment its prior value or the
\* complete result set of one run, never a mixture of two, and once all runs have
\* finished it is the result set of the run whose write happened last.
C16_LastWriterWins ==
    \A s \in SessionIds :
        /\ lastWrite[s] = 0 => notation_json[s] = PriorNotation
        /\ lastWrite[s] # 0 =>
              /\ runs[lastWrite[s]].effectiveSessionId = s
              /\ runs[lastWrite[s]].updateError = "null"
              /\ notation_json[s] = runs[lastWrite[s]].notation
        /\ notation_json[s] \in
              {PriorNotation} \cup
              {runs[r].notation : r \in {q \in RunIds : runs[q].effectiveSessionId = s}}

\* Two requests for s1 have both written and finished; the one whose result set
\* has fewer kinds wrote last, and the stored value is its result set.
C16_Witness ==
    \E r \in RunIds, q \in RunIds :
        /\ r # q
        /\ runs[r].pc = "done" /\ runs[q].pc = "done"
        /\ runs[r].effectiveSessionId = "s1" /\ runs[q].effectiveSessionId = "s1"
        /\ runs[r].updateError = "null" /\ runs[q].updateError = "null"
        /\ lastWrite["s1"] = r
        /\ Len(runs[r].notation.keys) < Len(runs[q].notation.keys)
        /\ notation_json["s1"] = runs[r].notation

\* ------------------------------------------------------------------------
\* Resolution of the steps, narrative, determinism (SpecScore)
\* ------------------------------------------------------------------------

\* A call of injectScoreGlobal that computes a composite: it returns, and the
\* steps it was given (those of the notation object before the call) are a
\* non-empty array.
StepsBefore == etapesOf(notationOut)
StepsAfter == etapesOf(notationOut')
DetailAfter == notationOut'.score_global.detail_calcul
Computes ==
    /\ injectCount' = injectCount + 1
    /\ outcome' = "returned"
    /\ Len(StepsBefore) > 0

\* The steps given to the call that carry the code, and those whose title
\* carries the code's prefix (1 for D, 2 for A, 3 for G, 4 for O).
CodedBefore(code) == {i \in 1..Len(StepsBefore) : StepsBefore[i].code = code}
TitledBefore(code) ==
    {i \in 1..Len(StepsBefore) :
        StepsBefore[i].prefix =
            (CASE code = "D" -> 1 [] code = "A" -> 2 [] code = "G" -> 3 [] code = "O" -> 4)}
First(S) == CHOOSE i \in S : \A j \in S : i <= j

\* C21: in every call that computes a composite, each code's score is read
\* from the first step that carries the code explicitly, otherwise from the
\* first step whose title carries the code's numeric prefix (1 to D, 2 to A,
\* 3 to G, 4 to O), otherwise it is 0: a step carrying the code wins over a
\* step that only has the prefix, wherever they stand.  The composite has four
\* lines, one per code, so at most four steps feed it; and the code written on
\* a step is its explicit code when it has one, else the code of its prefix.
C21_CodeThenPrefix ==
    [][Computes =>
        /\ Len(DetailAfter) = 4
        /\ \A k \in 1..4 :
              /\ DetailAfter[k].code = <<"D", "A", "G", "O">>[k]
              /\ DetailAfter[k].score_etape =
                    (LET c == DetailAfter[k].code
                     IN  IF CodedBefore(c) # {}
                         THEN Clamped(StepsBefore[First(CodedBefore(c))].score)
                         ELSE IF TitledBefore(c) # {}
                         THEN Clamped(StepsBefore[First(TitledBefore(c))].score)
                         ELSE 0)
        /\ \A i \in 1..Len(StepsBefore) :
              /\ StepsBefore[i].code # "undefined" =>
                    StepsAfter[i].code = StepsBefore[i].code
              /\ (StepsBefore[i].code = "undefined" /\ StepsBefore[i].prefix # 0) =>
                    StepsAfter[i].code = <<"D", "A", "G", "O">>[StepsBefore[i].prefix]
    ]_vars

\* A composite was computed from two steps: the first has no code, the title
\* "1 - ..." and a score that is no number, the second carries the code D and
\* scores 50.  D's line reads 50, the score of the coded step.
C21_Witness ==
    /\ outcome = "returned"
    /\ injectCount = 1
    /\ StepsIn = <<Etape("undefined", 1, NotNumber), Etape("D", 0, Num(5000))>>
    /\ DetailOut[1].score_etape = 5000
    /\ StepsOut[1].code = "D"

\* A step the claims call unresolvable: its code, if it has one, is none of
\* D, A, G, O, and its title has none of the four prefixes.
Unresolvable(e) == ~e.nul /\ e.code \notin {"D", "A", "G", "O"} /\ e.prefix = 0

\* C22: in every call that computes a composite, a step with no resolvable
\* code (no explicit code among D, A, G, O and no recognised title prefix) is
\* left as it was: no field of it is added or changed.
C22_UnresolvableUntouched ==
    [][Computes =>
        \A i \in 1..Len(StepsBefore) :
            Unresolvable(StepsBefore[i]) => StepsAfter[i] = StepsBefore[i]
    ]_vars

\* What does hold: an unresolvable step feeds no line of detail_calcul, and it
\* is left untouched when it has no code at all.
C22_UncodedUntouched ==
    [][Computes =>
        \A i \in 1..Len(StepsBefore) :
            Unresolvable(StepsBefore[i]) =>
                /\ \A c \in {"D", "A", "G", "O"} :
                      i \notin CodedBefore(c) \cup TitledBefore(c)
                /\ StepsBefore[i].code = "undefined" =>
                      StepsAfter[i] = StepsBefore[i]
    ]_vars

\* A composite was computed from a payload holding a step whose code is none
\* of D, A, G, O under a title without prefix: the step came out with a weight
\* of 0.25 and a contribution.
C22_Witness ==
    /\ outcome = "returned"
    /\ injectCount = 1
    /\ \E i \in 1..Len(StepsIn) :
          /\ StepsIn[i] = Etape("X", 0, Num(5000))
          /\ StepsOut[i].poids = Num(25)
          /\ StepsOut[i].contribution_score_global = Num(1250)
          /\ StepsOut[i].score_max = Num(100 * Hundred)

\* The narrative of the result, and what it is specified from: the score of a
\* code's line in detail_calcul.
InterpretationOut == notationOut.score_global.interpretation
LineScore(code) ==
    DetailOut[CHOOSE k \in 1..Len(DetailOut) : DetailOut[k].code = code].score_etape
Names(phrase) ==
    \E i \in 1..Len(InterpretationOut.lacunesTxt) :
        InterpretationOut.lacunesTxt[i] = phrase
ZeroCodes == {c \in {"D", "A", "G", "O"} : LineScore(c) = 0}
RECURSIVE WeightOfCodes(_)
WeightOfCodes(S) ==
    IF S = {} THEN 0
    ELSE LET c == CHOOSE x \in S : TRUE
         IN  FixedWeight(c) + WeightOfCodes(S \ {c})

\* C23: whenever a composite is computed, the narrative is the template filled
\* from the four step scores: it names the accroche phase if and only if A's
\* score is 0, names the rendez-vous phase if and only if O's score is 0, names
\* "certaines etapes cles" when neither is 0, cites as percentage the sum of the
\* weights of exactly the codes whose score is 0, and quotes the scores of D
\* and G.
C23_NarrativeTemplate ==
    (outcome = "returned" /\ HasStepsIn) =>
        /\ Names("la phase d'accroche (0%)") <=> LineScore("A") = 0
        /\ Names("l'obtention du rendez-vous (0%)") <=> LineScore("O") = 0
        /\ Names("certaines etapes cles") <=>
              (LineScore("A") # 0 /\ LineScore("O") # 0)
        /\ InterpretationOut.poidsManquantsPct = WeightOfCodes(ZeroCodes)
        /\ InterpretationOut.d = LineScore("D")
        /\ InterpretationOut.g = LineScore("G")

\* D = 80, A = 0, G = 60, O = 0: the narrative names both phases, in the order
\* accroche then rendez-vous, and cites 55 %.
C23_Witness ==
    /\ outcome = "returned"
    /\ StepsIn = FourSteps("codes", Num(8000), Num(0), Num(6000), Num(0))
    /\ InterpretationOut.lacunesTxt =
          <<"la phase d'accroche (0%)", "l'obtention du rendez-vous (0%)">>
    /\ InterpretationOut.poidsManquantsPct = 55
    /\ InterpretationOut.d = 8000
    /\ InterpretationOut.g = 6000

\* The score a call reads for a code from the steps it is given.
ScoreBefore(code) ==
    IF CodedBefore(code) # {}
    THEN Clamped(StepsBefore[First(CodedBefore(code))].score)
    ELSE IF TitledBefore(code) # {}
    THEN Clamped(StepsBefore[First(TitledBefore(code))].score)
    ELSE 0

\* What the four step scores alone determine: the contribution of each code
\* (two decimals, a tie going up), the composite (the nearest multiple of 5 of
\* their sum, a tie going up), its level, and the narrative's phrases and
\* percentage.
Determined(sD, sA, sG, sO) ==
    LET s == [c \in {"D", "A", "G", "O"} |->
                CASE c = "D" -> sD [] c = "A" -> sA [] c = "G" -> sG [] c = "O" -> sO]
        contribution == [c \in {"D", "A", "G", "O"} |->
                            (FixedWeight(c) * s[c] + 50) \div 100]
        sum == contribution["D"] + contribution["A"]
               + contribution["G"] + contribution["O"]
        valeur == ((sum + 250) \div 500) * 500
    IN  [contribution |-> contribution,
         valeur |-> valeur,
         niveau_performance |-> LevelOf(valeur),
         lacunesTxt |->
            IF sA # 0 /\ sO # 0 THEN <<"certaines etapes cles">>
            ELSE (IF sA = 0 THEN <<"la phase d'accroche (0%)">> ELSE << >>)
                 \o (IF sO = 0 THEN <<"l'obtention du rendez-vous (0%)">> ELSE << >>),
         poidsManquantsPct |->
            WeightOfCodes({c \in {"D", "A", "G", "O"} : s[c] = 0}),
         d |-> sD,
         g |-> sG]

\* C24: the scoring is deterministic.  In every call that computes a
\* composite, the first on a notation object or a later one, the composite
\* value, the four contributions, the level and the narrative are the values
\* determined by the four step scores the call reads, whatever the layout of
\* the steps, the other payloads, and the calls made before.
C24_Deterministic ==
    [][Computes =>
        LET det == Determined(ScoreBefore("D"), ScoreBefore("A"),
                              ScoreBefore("G"), ScoreBefore("O"))
            sg == notationOut'.score_global
        IN  /\ sg.valeur = det.valeur
            /\ sg.score_process = det.valeur
            /\ \A k \in 1..Len(sg.detail_calcul) :
                  sg.detail_calcul[k].contribution =
                      det.contribution[sg.detail_calcul[k].code]
            /\ sg.niveau_performance = det.niveau_performance
            /\ sg.interpretation =
                  [lacunesTxt |-> det.lacunesTxt,
                   poidsManquantsPct |-> det.poidsManquantsPct,
                   d |-> det.d, g |-> det.g]
    ]_vars

\* The second call on a notation object whose four steps score 12.49, 50, 60
\* and 80 returned the composite 55, the level moyen and the contributions
\* 2.5, 15, 15 and 20, as the first did.
C24_Witness ==
    /\ outcome = "returned"
    /\ injectCount = 2
    /\ StepsIn = FourSteps("codes", Num(1249), Num(5000), Num(6000), Num(8000))
    /\ notationOut.score_global.valeur = 5500
    /\ notationOut.score_global.niveau_performance = "moyen"
    /\ DetailOut[1].contribution = 250
    /\ DetailOut[4].contribution = 2000

\* C29: recomputation is idempotent.  A second call of injectScoreGlobal on the
\* notation object a first call has returned leaves score_global (valeur,
\* detail_calcul, niveau_performance, interpretation) and every step's
\* annotations as the first call left them, for every methodology payload.
C29_Idempotent ==
    [][(outcome = "returned" /\ injectCount >= 1 /\ Computes) =>
        /\ notationOut'.score_global = notationOut.score_global
        /\ StepsAfter = StepsBefore
    ]_vars

\* What does hold: the second call changes nothing when every code has at
\* most one step that carries it or its prefix.
C29_IdempotentWhenOneStepPerCode ==
    [][(/\ outcome = "returned" /\ injectCount >= 1 /\ Computes
        /\ \A c \in {"D", "A", "G", "O"} : Cardinality(FeedersOf(c)) <= 1) =>
        notationOut' = notationOut
    ]_vars

\* The step a call reads a code's score from, 0 when it reads none.
SourceBefore(code) ==
    IF CodedBefore(code) # {} THEN First(CodedBefore(code))
    ELSE IF TitledBefore(code) # {} THEN First(TitledBefore(code))
    ELSE 0

\* C30: in every call that computes a composite, a step feeds at most one
\* code: no step is the score source of two codes, a step that carries an
\* explicit code is not the source of another code, and each code's score_etape
\* is the clamped score of a step that the annotation pass labels with that
\* code, or 0 when the pass labels no step with it.
C30_OneCodePerStep ==
    [][Computes =>
        /\ \A c \in {"D", "A", "G", "O"}, d \in {"D", "A", "G", "O"} :
              (c # d /\ SourceBefore(c) # 0) => SourceBefore(c) # SourceBefore(d)
        /\ \A c \in {"D", "A", "G", "O"} :
              SourceBefore(c) # 0 =>
                  StepsBefore[SourceBefore(c)].code \in {"undefined", c}
        /\ \A k \in 1..Len(DetailAfter) :
              LET c == DetailAfter[k].code
                  labelled == {i \in 1..Len(StepsAfter) : StepsAfter[i].code = c}
              IN  IF labelled = {} THEN DetailAfter[k].score_etape = 0
                  ELSE \E i \in labelled :
                          DetailAfter[k].score_etape = Clamped(StepsBefore[i].score)
    ]_vars

\* What does hold: the claim, for the calls in which no step's title carries
\* the prefix of a code other than the one the step carries.
C30_OneCodePerStepWhenConsistent ==
    [][(/\ Computes
        /\ \A i \in 1..Len(StepsBefore) :
              \/ StepsBefore[i].code = "undefined"
              \/ StepsBefore[i].prefix = 0
              \/ StepsBefore[i].code = <<"D", "A", "G", "O">>[StepsBefore[i].prefix]) =>
        /\ \A c \in {"D", "A", "G", "O"}, d \in {"D", "A", "G", "O"} :
              (c # d /\ SourceBefore(c) # 0) => SourceBefore(c) # SourceBefore(d)
        /\ \A c \in {"D", "A", "G", "O"} :
              SourceBefore(c) # 0 =>
                  StepsBefore[SourceBefore(c)].code \in {"undefined", c}
        /\ \A k \in 1..Len(DetailAfter) :
              LET c == DetailAfter[k].code
                  labelled == {i \in 1..Len(StepsAfter) : StepsAfter[i].code = c}
              IN  IF labelled = {} THEN DetailAfter[k].score_etape = 0
                  ELSE \E i \in labelled :
                          DetailAfter[k].score_etape = Clamped(StepsBefore[i].score)
    ]_vars

\* ------------------------------------------------------------------------
\* The list of processed kinds (Spec)
\* ------------------------------------------------------------------------

\* The entries of tabs_processed in a 200 response, as a set.
TabsProcessed ==
    {response.tabs_processed.items[k] : k \in 1..Len(response.tabs_processed.items)}
ProducedKinds == {TabAt(i) : i \in {j \in TabIndexes : ProducedPayload(j)}}

\* C25: tabs_processed in a 200 response holds only rubric kind tags of the
\* fixed set of four, and exactly the kinds whose evaluator produced a payload
\* in this run.
C25_TabsProcessedAreKinds ==
    response.status = 200 =>
        /\ TabsProcessed \subseteq {"synthese", "methodo", "discours", "transcription"}
        /\ TabsProcessed = ProducedKinds

\* What does hold: apart from the entry "score_global", which is listed exactly
\* when a composite was injected, tabs_processed holds exactly the kinds whose
\* evaluator produced a payload.
C25_TabsProcessedButComposite ==
    response.status = 200 =>
        /\ TabsProcessed \ {"score_global"} = ProducedKinds
        /\ "score_global" \in TabsProcessed <=>
              (ProducedPayload(Methodo) /\ Len(etapesOf(notation)) > 0)

\* A 200 response whose tabs_processed lists "score_global" after the four
\* kinds.
C25_Witness ==
    /\ response.status = 200
    /\ response.tabs_processed.items =
          <<"synthese", "methodo", "discours", "transcription", "score_global">>

\* ------------------------------------------------------------------------
\* Preparing an iframe session (SpecPrepare)
\* ------------------------------------------------------------------------

\* The step in which prepareIframeSession returns.
Prepares == ~prepared.called /\ prepared'.called

\* The coach a coach-mode request designates: coach_id when it is supplied,
\* DEFAULT_COACH_ID otherwise; and whether an id is that of a coach record.
DesignatedCoachId ==
    IF prepareParams.coachId # "" THEN prepareParams.coachId ELSE DEFAULT_COACH_ID
IsCoach(id) == \E c \in Coaches : c.id = id

\* C26: in coach mode, whatever the sub-mode, a prepared configuration carries
\* the name and voice of the coach identified by coach_id when it is supplied,
\* by DEFAULT_COACH_ID otherwise; when neither identifies a coach record the
\* preparation fails and returns no configuration, with the error "No coach
\* available" (unless the function ended in its catch clause).
C26_CoachOrFailure ==
    (prepared.called /\ prepareParams.mode = "coach") =>
        /\ prepared.success =>
              \E c \in Coaches :
                  /\ c.id = DesignatedCoachId
                  /\ prepared.data.personaName = c.name
                  /\ prepared.data.voiceId = c.voice_id
                  /\ prepared.data.mode = "coach"
        /\ (~IsCoach(prepareParams.coachId) /\ ~IsCoach(DEFAULT_COACH_ID)) =>
              /\ ~prepared.success
              /\ prepared.data = NoConfig
              /\ ~prepared.thrown => prepared.error = "No coach available"

\* An after_training request with a coach_id that is no coach's, while
\* DEFAULT_COACH_ID is no coach's either, failed with "No coach available"; the
\* scenario exists and a session of it is completed.
C26_Witness ==
    /\ prepared.called
    /\ prepareParams.mode = "coach"
    /\ prepareParams.coachMode = "after_training"
    /\ prepareParams.scenarioId = "sc1"
    /\ prepareParams.coachId = "c9"
    /\ DEFAULT_COACH_ID = "c9"
    /\ \E i \in 1..Len(sessions) :
          sessions[i].scenario_id = "sc1" /\ sessions[i].status = "completed"
    /\ ~prepared.success
    /\ prepared.error = "No coach available"
    /\ prepared.data = NoConfig

\* The sessions with status completed, and the most recently created of them.
CompletedSessions == {i \in 1..Len(sessions) : sessions[i].status = "completed"}
MostRecentCompleted == CHOOSE i \in CompletedSessions : \A j \in CompletedSessions : j <= i

\* C27: in default coach mode (mode=coach without coach_mode) a prepared
\* configuration analyses ref_session_id when it is supplied, otherwise the
\* most recently created session with status completed: the transcript and the
\* scenario are that session's.  When no ref_session_id is supplied and no
\* completed session exists, the preparation fails and returns no
\* configuration, with the error "No completed session found" once a coach was
\* found (before that the error is the one of C26).
C27_RefOrLatestCompleted ==
    [][(/\ Prepares
        /\ prepareParams.mode = "coach"
        /\ prepareParams.coachMode = "undefined") =>
        /\ prepared'.success =>
              LET analysed ==
                      IF prepareParams.refSessionId # 0
                      THEN prepareParams.refSessionId ELSE MostRecentCompleted
              IN  /\ prepareParams.refSessionId = 0 => CompletedSessions # {}
                  /\ analysed \in 1..Len(sessions)
                  /\ prepared'.data.systemInstructions.transcriptOf = analysed
                  /\ prepared'.data.scenarioId = sessions[analysed].scenario_id
                  /\ prepared'.data.coachMode = "default"
        /\ (prepareParams.refSessionId = 0 /\ CompletedSessions = {}) =>
              /\ ~prepared'.success
              /\ prepared'.data = NoConfig
              /\ (~prepared'.thrown /\ prepared'.error # "No coach available") =>
                    prepared'.error = "No completed session found"
    ]_vars

\* A default coach request without ref_session_id was prepared while two
\* sessions were completed: the second, created last, is the one analysed.
C27_Witness ==
    /\ prepared.called
    /\ prepared.success
    /\ prepareParams.mode = "coach"
    /\ prepareParams.coachMode = "undefined"
    /\ prepareParams.refSessionId = 0
    /\ Len(sessions) = 2
    /\ sessions[1].status = "completed"
    /\ sessions[2].status = "completed"
    /\ sessions[1].scenario_id = "sc1"
    /\ sessions[2].scenario_id = "sc2"
    /\ prepared.data.systemInstructions.transcriptOf = 2
    /\ prepared.data.scenarioId = "sc2"

\* A default coach request without ref_session_id failed with "No completed
\* session found": a coach was found, and the only session is still active.
C27_WitnessNone ==
    /\ prepared.called
    /\ prepareParams.mode = "coach"
    /\ prepareParams.coachMode = "undefined"
    /\ prepareParams.refSessionId = 0
    /\ Len(sessions) = 1
    /\ sessions[1].status = "active"
    /\ prepared.error = "No completed session found"

\* C28: for a request with scenario_id and variant=coach that is not
\* mode=coach, a prepared configuration has the mode "coach" (the coach UI).
C28_VariantUsesCoachUI ==
    (/\ prepared.called
     /\ prepared.success
     /\ prepareParams.mode # "coach"
     /\ prepareParams.variant = "coach"
     /\ prepareParams.scenarioId # "") =>
        prepared.data.mode = "coach"

\* What does hold: such a configuration has the mode "standard" and the
\* coachMode "persona_variant", and carries the persona's name and voice.
C28_VariantUsesPersonaUI ==
    (/\ prepared.called
     /\ prepared.success
     /\ prepareParams.mode # "coach"
     /\ prepareParams.variant = "coach"
     /\ prepareParams.scenarioId # "") =>
        /\ prepared.data.mode = "standard"
        /\ prepared.data.coachMode = "persona_variant"
        /\ \E sc \in Scenarios :
              /\ sc.id = prepareParams.scenarioId
              /\ prepared.data.personaName = sc.personas.name
              /\ prepared.data.voiceId = sc.personas.voice_id

\* ------------------------------------------------------------------------
\* Shape of the composite, frame of injectScoreGlobal (SpecScore)
\* ------------------------------------------------------------------------

\* The result set holds a composite.
CompositePresent == notationOut.score_global.t = "obj"

\* C31: whenever score_global is present in a result set, after one or more
\* applications of injectScoreGlobal with the step 5 the endpoint uses, its
\* valeur is a multiple of 5 within [0, 100], niveau_performance is the level
\* of valeur (faible up to 40, moyen up to 65, bon up to 85, excellent above),
\* and score_process equals valeur.
C31_CompositeShape ==
    CompositePresent =>
        /\ notationOut.score_global.valeur % (5 * Hundred) = 0
        /\ notationOut.score_global.valeur >= 0
        /\ notationOut.score_global.valeur <= 100 * Hundred
        /\ notationOut.score_global.niveau_performance =
              LevelOf(notationOut.score_global.valeur)
        /\ notationOut.score_global.score_process = notationOut.score_global.valeur

\* The steps score 12.49, 50, 60 and 80: the contributions sum to 52.5 and the
\* composite is 55, moyen.
C31_Witness ==
    /\ CompositePresent
    /\ StepsIn = FourSteps("codes", Num(1249), Num(5000), Num(6000), Num(8000))
    /\ injectCount = 1
    /\ notationOut.score_global.valeur = 5500
    /\ notationOut.score_global.score_process = 5500
    /\ notationOut.score_global.niveau_performance = "moyen"

\* The parts of C32 about detail_calcul and valeur: four entries in the order
\* D, A, G, O, each with the fixed weight of its code (0.20, 0.30, 0.25, 0.25,
\* summing to 1), a contribution that is score_etape times poids rounded to two
\* decimals, and valeur the nearest multiple of 5 of the sum of the four.
DetailIsWeightedLines ==
    /\ Len(DetailOut) = 4
    /\ \A k \in 1..4 :
          /\ DetailOut[k].code = <<"D", "A", "G", "O">>[k]
          /\ DetailOut[k].poids = FixedWeight(DetailOut[k].code)
          /\ DetailOut[k].contribution =
                (DetailOut[k].score_etape * DetailOut[k].poids + 50) \div 100
    /\ DetailOut[1].poids + DetailOut[2].poids
       + DetailOut[3].poids + DetailOut[4].poids = Hundred
    /\ notationOut.score_global.valeur =
          ((DetailOut[1].contribution + DetailOut[2].contribution
            + DetailOut[3].contribution + DetailOut[4].contribution + 250)
           \div 500) * 500

\* The keys of the emitted weight snapshot.
SnapshotKeys == DOMAIN notationOut.score_global.ponderations

\* C32 as stated: whenever score_global is present, detail_calcul and valeur
\* are as above and the emitted weight snapshot is the fixed table keyed by
\* D, A, G, O.
C32_SnapshotKeyedByCode ==
    CompositePresent =>
        /\ DetailIsWeightedLines
        /\ SnapshotKeys = {"D", "A", "G", "O"}

\* C32: whenever score_global is present, detail_calcul and valeur are as
\* above, and the emitted weight snapshot is the fixed table keyed by the names
\* of the steps: demarrer_passer_barrage 0.20, accrocher 0.30, gerer_objections
\* 0.25, obtenir_rendez_vous 0.25, the same after every application.
C32_SnapshotKeyedByStepName ==
    CompositePresent =>
        /\ DetailIsWeightedLines
        /\ SnapshotKeys = {"demarrer_passer_barrage", "accrocher",
                           "gerer_objections", "obtenir_rendez_vous"}
        /\ notationOut.score_global.ponderations.demarrer_passer_barrage = 20
        /\ notationOut.score_global.ponderations.accrocher = 30
        /\ notationOut.score_global.ponderations.gerer_objections = 25
        /\ notationOut.score_global.ponderations.obtenir_rendez_vous = 25

\* A composite computed twice from the scores 80, 0, 60, 0: the lines D, A, G, O
\* contribute 16, 0, 15, 0, valeur is 30, and the snapshot has the key accrocher.
C32_Witness ==
    /\ CompositePresent
    /\ injectCount = 2
    /\ StepsIn = FourSteps("codes", Num(8000), Num(0), Num(6000), Num(0))
    /\ DetailOut[1].contribution = 1600
    /\ DetailOut[3].contribution = 1500
    /\ notationOut.score_global.valeur = 3000
    /\ "accrocher" \in SnapshotKeys

\* A call of injectScoreGlobal, however it ends.
Invoked == injectCount' = injectCount + 1

\* The code the claims resolve a step to: its explicit code among D, A, G, O,
\* otherwise the code of its title's prefix.
ResolvedCode(e) ==
    IF e.code \in {"D", "A", "G", "O"} THEN e.code
    ELSE IF e.code = "undefined" /\ e.prefix # 0
    THEN <<"D", "A", "G", "O">>[e.prefix]
    ELSE "none"

\* C33: a call of injectScoreGlobal neither adds, removes nor reorders
\* methodology steps (each step keeps its place and its title), and leaves the
\* discours and transcription payloads unchanged; on a step it resolves to a
\* code, a call that returns changes only code (to the resolved code), score
\* (clamped), score_max (100), poids (the weight of the code) and
\* contribution_score_global.
C33_Frame ==
    [][Invoked =>
        /\ Len(StepsAfter) = Len(StepsBefore)
        /\ \A i \in 1..Len(StepsBefore) :
              /\ StepsAfter[i].nul = StepsBefore[i].nul
              /\ StepsAfter[i].prefix = StepsBefore[i].prefix
        /\ notationOut'.discours = notationOut.discours
        /\ notationOut'.transcription = notationOut.transcription
        /\ notationOut'.methodo.t = notationOut.methodo.t
        /\ outcome' = "returned" =>
              \A i \in 1..Len(StepsBefore) :
                  (~StepsBefore[i].nul /\ ResolvedCode(StepsBefore[i]) # "none") =>
                      StepsAfter[i] =
                          [StepsBefore[i] EXCEPT
                              !.code = ResolvedCode(StepsBefore[i]),
                              !.score = Num(Clamped(StepsBefore[i].score)),
                              !.score_max = Num(100 * Hundred),
                              !.poids = Num(FixedWeight(ResolvedCode(StepsBefore[i]))),
                              !.contribution_score_global =
                                  Num((Clamped(StepsBefore[i].score)
                                       * FixedWeight(ResolvedCode(StepsBefore[i])) + 50)
                                      \div 100)]
    ]_vars

\* A call returned on the steps <<no code, no prefix>>, <<no code, "1 - ...">>
\* beside a discours payload: both steps are there in the same order, the
\* second one annotated as D.
C33_Witness ==
    /\ outcome = "returned"
    /\ injectCount = 1
    /\ StepsIn = <<Etape("undefined", 0, Num(5000)), Etape("undefined", 1, Num(5000))>>
    /\ Len(StepsOut) = 2
    /\ StepsOut[1] = StepsIn[1]
    /\ StepsOut[2].code = "D"
    /\ StepsOut[2].contribution_score_global = Num(1000)
    /\ notationOut.discours = notationIn.discours

\* ------------------------------------------------------------------------
\* Termination of a request (SpecLive)
\* ------------------------------------------------------------------------

\* The response the caller has received, if any.
Responded == response # NoResponse

\* C34: a request that passed input resolution, whose four evaluator calls
\* each settle and whose store write, when attempted, returns, eventually
\* returns a response to the caller, and exactly one: once a response is
\* returned the request is over and the response is never replaced.
C34_EventuallyOneResponse ==
    /\ (pc = "fanout") ~> (pc = "done" /\ Responded)
    /\ [][Responded => (response' = response /\ pc' = "done")]_vars
    /\ [](Responded => pc = "done")

\* A request went through the four calls and the store write and answered 200.
C34_Witness ==
    /\ FanoutReached
    /\ pc = "done"
    /\ updates = 1
    /\ updateError = "null"
    /\ response.status = 200

\* ------------------------------------------------------------------------
\* A kind without prompt (Spec)
\* ------------------------------------------------------------------------

\* The kinds whose prompt is missing from the loaded prompts.
PromptMissing(i) == TabAt(i) \notin promptsMap

\* The entry the handler makes for a kind without prompt.
NoPromptEntry(i) == TabAt(i) \o ": Prompt non trouve pour " \o TabAt(i)

\* The entries of seq that equal entry.
Occurrences(seq, entry) == {k \in 1..Len(seq) : seq[k] = entry}

\* C35: when the prompt of a kind is missing from the loaded prompts (at least
\* one prompt being there), the call of that kind resolves without a request
\* to the evaluator, the handler's errors array has the entry "<kind>: Prompt
\* non trouve pour <kind>" once and the notation object no key for the kind;
\* every other kind is evaluated and is a key of the notation object exactly
\* when its evaluator produced a payload; a 200 response carries that errors
\* array and that notation object.
C35_MissingPromptRecorded ==
    AfterJoin =>
        \A i \in TabIndexes : PromptMissing(i) =>
            /\ ~EvaluatorCalled(i)
            /\ results[i] = callOpenAINoPrompt(TabAt(i))
            /\ Cardinality(Occurrences(errors, NoPromptEntry(i))) = 1
            /\ ~HasKey(notation, TabAt(i))
            /\ \A j \in TabIndexes : ~PromptMissing(j) =>
                  /\ EvaluatorCalled(j)
                  /\ ProducedPayload(j) <=> HasKey(notation, TabAt(j))
            /\ (pc = "done" /\ response.status = 200) =>
                  /\ response.errors.t = "array"
                  /\ response.errors.items = errors
                  /\ response.notation = notation


\* Two kinds had no prompt, the two others produced payloads, and the caller
\* has the result with the two entries.
C35_Witness ==
    /\ AfterJoin
    /\ pc = "done"
    /\ response.status = 200
    /\ Cardinality({i \in TabIndexes : PromptMissing(i)}) = 2
    /\ \A j \in TabIndexes : ~PromptMissing(j) => ProducedPayload(j)
    /\ Len(errors) = 2

\* ------------------------------------------------------------------------
\* Writes to the sessions table (SpecPrepare)
\* ------------------------------------------------------------------------

\* The rows of the table that differ between the two states of a step.
RowsChanged ==
    {i \in 1..Len(sessions) : i <= Len(sessions') /\ sessions'[i] # sessions[i]}

\* The step inserts a row, and the step completes a session.
Inserts == Len(sessions') > Len(sessions)
Completes ==
    \E i \in RowsChanged : sessions'[i].status # sessions[i].status

CompletedOf(read, scenario_id) ==
    {i \in read.completed : sessions[i].scenario_id = scenario_id}

\* POST p was made with a scenario_id alone, and its lookup is behind.
ByScenario(p) ==
    posts[p].session_id = 0 /\ posts[p].scenario_id # "" /\ posts[p].at # "start"

\* No session was created or completed since the lookup of POST p.
NothingSince(p) == Read(sessions) = posts[p].seen

\* The step in which GET answers.
Gets == ~got.called /\ got'.called

\* The POST requests whose update was applied to session id.
WritersOf(id) ==
    {q \in PostIds : posts[q].saved /\ posts[q].effectiveSessionId = id}

\* C36: a POST by scenario_id scores the most recently created session of the
\* scenario whose status is completed, never one of another status, and
\* answers 404 when the scenario has none; once that POST has saved a result,
\* a GET for the same scenario_id, no session having been created or completed
\* since the POST's lookup, returns the id of that session and exactly what
\* the session's notation_json holds, the result of the POST request that
\* wrote to it (of that POST when no other request did).
C36_RoundTrip ==
    /\ [](\A p \in PostIds : ByScenario(p) =>
            LET id == posts[p].effectiveSessionId
                completed == CompletedOf(posts[p].seen, posts[p].scenario_id)
            IN  IF id = 0
                THEN completed = {} /\ posts[p].at = "done" /\ posts[p].status = 404
                ELSE /\ id \in completed
                     /\ \A j \in completed : j <= id)
    /\ [][\A p \in PostIds :
            (/\ Gets
             /\ ByScenario(p)
             /\ posts[p].saved
             /\ got'.scenarioId = posts[p].scenario_id
             /\ NothingSince(p)) =>
                /\ got'.status = 200
                /\ got'.session_id = posts[p].effectiveSessionId
                /\ got'.notation = sessions[posts[p].effectiveSessionId].notation_json
                /\ got'.notation \in {ResultOf(q) : q \in WritersOf(got'.session_id)}
                /\ WritersOf(got'.session_id) = {p} => got'.notation = ResultOf(p)]_vars

\* A POST by scenario saved its result in the last completed session of the
\* scenario while a later session of the scenario, not completed, holds the
\* result of another request; the GET returned the completed session and the
\* result of the POST.
C36_Witness ==
    /\ got.status = 200
    /\ \E p \in PostIds :
          /\ ByScenario(p)
          /\ posts[p].saved
          /\ NothingSince(p)
          /\ got.scenarioId = posts[p].scenario_id
          /\ got.session_id = posts[p].effectiveSessionId
          /\ got.notation = ResultOf(p)
          /\ Len(sessions) = 2
          /\ \E i \in 1..Len(sessions) :
                /\ i > got.session_id
                /\ sessions[i].scenario_id = got.scenarioId
                /\ sessions[i].status # "completed"
                /\ sessions[i].notation_json # "null"

\* ------------------------------------------------------------------------
\* The captured conversation (SpecLog)
\* ------------------------------------------------------------------------

\* The entries of the conversation log, and the event an entry was made from.
Entries == 1..Len(conversationRef)
EventOf(k) == delivered[conversationRef[k].timestamp]

\* The role an event's transcript is logged under.
RoleOf(event) == IF event.type = UserTranscription THEN "user" ELSE "assistant"

\* C38: whatever events were delivered, no entry of the conversation log has
\* an empty or whitespace-only content (the content is the trimmed transcript
\* of its event, under the role of the event's type); no two entries were
\* made from events with the same event id; no two consecutive entries have
\* the same role and the same trimmed content; and the entries are in the
\* order their events arrived in.
C38_ConversationLog ==
    /\ \A k \in Entries :
          /\ conversationRef[k].timestamp \in 1..Len(delivered)
          /\ \E c \in 1..Len(conversationRef[k].content) :
                conversationRef[k].content[c] # " "
          /\ EventOf(k).type \in {UserTranscription, AssistantTranscript}
          /\ conversationRef[k].role = RoleOf(EventOf(k))
          /\ conversationRef[k].content = trim(EventOf(k).transcript)
    /\ \A k, l \in Entries :
          (k # l /\ EventOf(k).event_id # "") =>
              EventOf(k).event_id # EventOf(l).event_id
    /\ \A k \in Entries : k + 1 \in Entries =>
          ~(/\ conversationRef[k].role = conversationRef[k + 1].role
            /\ trim(conversationRef[k].content) = trim(conversationRef[k + 1].content))
    /\ \A k, l \in Entries :
          k < l => conversationRef[k].timestamp < conversationRef[l].timestamp

\* Three events, the second with the id of the first and a text of its own:
\* the log has the first and the third, whose transcript was trimmed.
C38_Witness ==
    /\ Len(delivered) = 3
    /\ Len(conversationRef) = 2
    /\ delivered[1].event_id = "e1"
    /\ delivered[2].event_id = "e1"
    /\ delivered[2].type # delivered[1].type
    /\ trim(delivered[2].transcript) = <<"b">>
    /\ conversationRef[1].timestamp = 1
    /\ conversationRef[2].timestamp = 3
    /\ delivered[3].transcript = <<"a", " ">>
    /\ conversationRef[2].content = <<"a">>

\* ------------------------------------------------------------------------
\* The status of the client (SpecClient)
\* ------------------------------------------------------------------------

\* The moves of the status the component is described with.
StatusMoves ==
    {<<"loading", "ready">>, <<"loading", "error">>, <<"ready", "connecting">>,
     <<"connecting", "connected">>, <<"connecting", "error">>,
     <<"connected", "error">>, <<"connected", "ended">>}

\* The status is final, and a save request is sent on the end only, with the
\* messages captured, at least one.
EndedIsFinalAndSavesMessages ==
    /\ clientStatus = "ended" => clientStatus' = "ended"
    /\ saveRequests' # saveRequests =>
          /\ clientStatus # "ended" /\ clientStatus' = "ended"
          /\ Len(conversationRef) >= 1
          /\ saveRequests' = Append(saveRequests, Len(conversationRef))

\* C39: the status of the client only moves from loading to ready or error,
\* from ready to connecting, from connecting to connected or error and from
\* connected to error or ended, whatever the order of the user's clicks, of the
\* token and SDP responses and of the connection-state callbacks; ended is
\* final, and the session is saved on end only if a message was captured.
C39_StatusMoves ==
    [][/\ clientStatus' # clientStatus =>
             <<clientStatus, clientStatus'>> \in StatusMoves
       /\ EndedIsFinalAndSavesMessages]_vars

\* What holds: the same with one more move, from error back to connected,
\* made by the handler of connection state changes when a connection that was
\* reported lost comes back.
C39_StatusMovesWithReconnect ==
    [][/\ clientStatus' # clientStatus =>
             <<clientStatus, clientStatus'>> \in
                 StatusMoves \cup {<<"error", "connected">>}
       /\ clientStatus = "error" /\ clientStatus' = "connected" =>
             connectionState = "disconnected" /\ connectionState' = "connected"
       /\ EndedIsFinalAndSavesMessages]_vars

\* The connection came back after the error status, the call went on and was
\* ended with a message saved.
C39_Reconnected ==
    /\ clientStatus = "ended"
    /\ saveRequests = <<1>>
    /\ Len(delivered) = 3

====
